---------------------------- MODULE Spec2Model ----------------------------
(* Model of the CNPJ lookup core of app-fornecedores-v2:                   *)
(*   - streamlit_app2.py : throttle, identifier normalisation, the CNPJ    *)
(*     tab's "Consultar" handler, the Portal da Transparencia pager;       *)
(*   - teste_pt_sansoes.py : the CLI main, the four normalisers and        *)
(*     consolidate_results.                                                *)
(* Time is counted in ticks of half a second.  Python values are tokens:   *)
(* None, "", {}, [] have their own tokens so that the emptiness tests of   *)
(* the code can be modelled as the code performs them.                     *)
EXTENDS Integers, Sequences, FiniteSets, TLC

VARIABLES
    clock,               \* reading of time.time(), in ticks
    last_cnpj_click_ts,  \* st.session_state.last_cnpj_click_ts
    cnpj_cache,          \* st.session_state.cnpj_cache (session memo)
    brasil_cache,        \* st.cache_data store of consultar_cnpj_brasilapi_cacheado
    ui,                  \* what the last run of the CNPJ tab showed
    calls,               \* external operations performed by the last run
    sleeps,              \* number of time.sleep calls made so far
    thr,                 \* last direct call of _throttle_ok and its return value
    permitted,           \* clock readings of the calls _throttle_ok permitted
    cli,                 \* the CLI process (teste_pt_sansoes.main)
    provedores,          \* what each provider the CLI asks answers to a GET
    txt,                 \* argument handed to the normalisation functions
    norm_out,            \* results of the normalisation functions on txt
    pager,               \* one activation of _pt_fetch_all
    raw_results,         \* argument of consolidate_results
    consolidado,         \* return value of consolidate_results
    proc,                \* which program of the repository this run is
    pt_key,              \* whether API_TRANSPARENCIA_KEY is configured
    st_cache,            \* st.cache_data stores of the Portal da Transparencia and PNCP functions
    http,                \* live fetches issued so far, per cached function and identifier
    secoes,              \* what the last run showed in each Portal da Transparencia / PNCP section
    disk,                \* files of the harvester under ./saida and /mnt/data
    sessions,            \* st.session_state of every browser session, and which one is running
    fetch,               \* one call of a provider fetcher: the response it meets, what it returns
    retry                \* one request through an HTTP adapter: attempts made, retries left

vars == <<clock, last_cnpj_click_ts, cnpj_cache, brasil_cache, ui, calls, sleeps,
          thr, permitted, cli, provedores, txt, norm_out, pager, raw_results, consolidado,
          proc, pt_key, st_cache, http, secoes, disk, sessions, fetch, retry>>

sessionVars == <<cnpj_cache, brasil_cache, ui, calls>>
throttleVars == <<last_cnpj_click_ts, thr, permitted>>
cliVars == <<cli, provedores>>
normVars == <<txt, norm_out>>
pagerVars == <<pager, sleeps>>
consVars == <<raw_results, consolidado>>
portalVars == <<st_cache, http, secoes>>
worldVars == <<disk, sessions, fetch, retry>>

-----------------------------------------------------------------------------
(* Bounds of the model *)

MaxTime == 13        \* largest clock reading explored
StartTime == 4       \* clock reading when the session starts (any epoch time >= min_seconds)
MaxRuns == 2         \* an input string is made of at most MaxRuns runs of one character
MaxLen == 4          \* length of the strings handed to the normalisation functions
MaxPageLen == 5      \* largest number of items the provider puts in one page
MaxPagesArg == 3     \* largest max_pages argument explored
MaxCells == 2        \* keys held, failures and malformed bodies over all provider answers
MaxClicks == 2       \* lookups the throttle lets through in one exploration of the caches
MaxWindows == 2      \* the clock runs over MaxWindows Portal cache lifetimes

-----------------------------------------------------------------------------
(* Python values *)

NoneV == "<None>"
EmptyStr == ""
EmptyDict == "<{}>"
EmptyList == "<[]>"

(* Values of the variables before anything ran *)
NoCall == [called |-> FALSE]

PagerIdle == [pc |-> "idle"]

CliStart == [pc |-> "start", code |-> 0, cnpj |-> <<>>]
UiNone == [msg |-> "none", input |-> <<>>, cnpj |-> <<>>, wait |-> 0,
           origem |-> "nenhuma", data |-> NoneV]
NormNone == [applied |-> 0, a1 |-> <<>>, b1 |-> <<>>, a2 |-> <<>>, b2 |-> <<>>]

(* The sections of the CNPJ tab fed by the Portal da Transparencia: the profile *)
(* (one pt_get_raw call) and the five paged lists (_pt_fetch_all).              *)
PagedSections == {"sancoes", "notas_fiscais", "renuncias", "despesas", "contratos"}

PtSections == {"pessoa_juridica"} \cup PagedSections

(* pncp_avisos_por_cnpj and pncp_contratos_por_cnpj *)
PncpSections == {"pncp_avisos", "pncp_contratos"}

CachedFunctions == PtSections \cup PncpSections

(* nothing cached, nothing shown, no file on disk *)
StCacheEmpty == [f \in CachedFunctions |-> <<>>]

(* the value of a section's variable when its function is not called: *)
(* `x, meta = (None, {})`                                              *)
NotFetched == [none |-> TRUE, items |-> <<>>, meta |-> EmptyDict]

NoSection == [shown |-> "nothing", rows |-> <<>>, badge |-> "nenhuma", caption |-> FALSE,
              ret |-> NotFetched, live |-> FALSE]

NoSections == [f \in CachedFunctions |-> NoSection]

NoDisk == [dump |-> FALSE, csv |-> FALSE]

(* Browser sessions: each has its own st.session_state, initialised by lines 57-67 *)
SessionIds == {1, 2}

NewSessionState == [last_cnpj_click_ts |-> 0, cnpj_cache |-> <<>>]

SessionsStart == [sid |-> 1, store |-> [s \in SessionIds |-> NewSessionState]]

(* no fetcher under observation *)
FetchIdle == [pc |-> "idle"]

(* no request under observation *)
RetryIdle == [pc |-> "idle"]

(* Characters.  "sup2" is U+00B2 SUPERSCRIPT TWO (str.isdigit() is true, it is *)
(* not in category Nd); "ar3" is U+0663 ARABIC-INDIC DIGIT THREE (category Nd). *)
AsciiDigits == {"0", "1", "2", "3", "4", "5", "6", "7", "8", "9"}

UnicodeDecimal(c) == c \in AsciiDigits \cup {"ar3"}

str_isdigit(c) == UnicodeDecimal(c) \/ c \in {"sup2"}

IsSpace(c) == c = " "

RECURSIVE Repeat(_, _)
Repeat(c, n) == IF n = 0 THEN <<>> ELSE <<c>> \o Repeat(c, n - 1)

RECURSIVE str_strip_left(_)
str_strip_left(s) ==
    IF s # <<>> /\ IsSpace(Head(s)) THEN str_strip_left(Tail(s)) ELSE s

RECURSIVE str_strip_right(_)
str_strip_right(s) ==
    IF s # <<>> /\ IsSpace(s[Len(s)]) THEN str_strip_right(SubSeq(s, 1, Len(s) - 1)) ELSE s

str_strip(s) == str_strip_right(str_strip_left(s))

(* "".join([c for c in (cnpj_raw or "") if c.isdigit()]) *)
RECURSIVE _normalize_cnpj(_)
_normalize_cnpj(cnpj_raw) ==
    IF cnpj_raw = <<>> THEN <<>>
    ELSE IF str_isdigit(Head(cnpj_raw))
         THEN <<Head(cnpj_raw)>> \o _normalize_cnpj(Tail(cnpj_raw))
         ELSE _normalize_cnpj(Tail(cnpj_raw))

(* re.sub(r"\D+", "", txt or ""): every maximal run of characters that are *)
(* not Unicode decimal digits is replaced by the empty string.             *)
RECURSIVE SkipNonDecimal(_)
SkipNonDecimal(s) ==
    IF s # <<>> /\ ~UnicodeDecimal(Head(s)) THEN SkipNonDecimal(Tail(s)) ELSE s

RECURSIVE somente_digitos(_)
somente_digitos(t) ==
    IF t = <<>> THEN <<>>
    ELSE IF UnicodeDecimal(Head(t))
         THEN <<Head(t)>> \o somente_digitos(Tail(t))
         ELSE somente_digitos(SkipNonDecimal(t))

-----------------------------------------------------------------------------
(* Program constants *)

CNPJ_LEN == 14              \* len(cnpj_digits) != 14
MIN_SECONDS == 4            \* _throttle_ok(2.0): 2.0 s in ticks
TTL_BRASILAPI == 7200       \* st.cache_data(ttl=60*60), in ticks

Max(a, b) == IF a >= b THEN a ELSE b

-----------------------------------------------------------------------------
(* Rate throttle: streamlit_app2._throttle_ok *)

(* A throttle that stamps the time of every call, permitted or not. *)
throttle_ok_stamp_always(now, last, min_seconds) ==
    IF now - last < min_seconds
    THEN [ok |-> FALSE, wait |-> Max(0, min_seconds - (now - last)), ts |-> now]
    ELSE [ok |-> TRUE, wait |-> 0, ts |-> now]

(* A throttle that compares with <= instead of <. *)
throttle_ok_off_by_one(now, last, min_seconds) ==
    IF now - last <= min_seconds
    THEN [ok |-> FALSE, wait |-> Max(0, min_seconds - (now - last)), ts |-> last]
    ELSE [ok |-> TRUE, wait |-> 0, ts |-> now]

(* A throttle that rejects without a wait time. *)
throttle_ok_no_wait(now, last, min_seconds) ==
    IF now - last < min_seconds
    THEN [ok |-> FALSE, wait |-> 0, ts |-> last]
    ELSE [ok |-> TRUE, wait |-> 0, ts |-> now]

(* The return value (ok, wait) and the value last_cnpj_click_ts has afterwards. *)
_throttle_ok(now, last, min_seconds) ==
    IF now - last < min_seconds
    THEN [ok |-> FALSE, wait |-> Max(0, min_seconds - (now - last)), ts |-> last]
    ELSE [ok |-> TRUE, wait |-> 0, ts |-> now]

MinSecondsArgs == {MIN_SECONDS, MIN_SECONDS + 2}

(* time.time() advances. *)
Tick ==
    /\ clock < MaxTime
    /\ clock' = clock + 1

(* The wall clock is set back (time.time() is not monotonic). *)
ClockSetBack ==
    /\ \E t \in 0..(clock - 1) : clock' = t

(* One call of _throttle_ok(min_seconds) on the session state. *)
ThrottleCall(min_seconds) ==
    LET r == _throttle_ok(clock, last_cnpj_click_ts, min_seconds) IN
    /\ last_cnpj_click_ts' = r.ts
    /\ thr' = [called |-> TRUE, now |-> clock, min |-> min_seconds,
               before |-> last_cnpj_click_ts, ok |-> r.ok, wait |-> r.wait,
               sleeps_before |-> sleeps]
    /\ permitted' = IF r.ok THEN Append(permitted, [t |-> clock, min |-> min_seconds])
                    ELSE permitted

InitBase ==
    /\ clock = StartTime
    /\ last_cnpj_click_ts = 0
    /\ cnpj_cache = <<>>
    /\ brasil_cache = <<>>
    /\ ui = UiNone
    /\ calls = <<>>
    /\ sleeps = 0
    /\ thr = NoCall
    /\ permitted = <<>>
    /\ cli = CliStart
    /\ norm_out = NormNone
    /\ pager = PagerIdle
    /\ raw_results = <<>>
    /\ consolidado = NoneV
    /\ st_cache = StCacheEmpty
    /\ http = <<>>
    /\ secoes = NoSections
    /\ sessions = SessionsStart

InitThrottle ==
    /\ InitBase
    /\ fetch = FetchIdle
    /\ retry = RetryIdle
    /\ disk = NoDisk
    /\ provedores = <<>>
    /\ txt = <<>>
    /\ proc = "streamlit"
    /\ pt_key = TRUE

NextThrottle ==
    \/ Tick /\ UNCHANGED <<sessionVars, throttleVars, cliVars, normVars, pagerVars, consVars, proc, pt_key, portalVars, worldVars>>
    \/ ClockSetBack /\ UNCHANGED <<sessionVars, throttleVars, cliVars, normVars, pagerVars, consVars, proc, pt_key, portalVars, worldVars>>
    \/ \E m \in MinSecondsArgs :
          ThrottleCall(m) /\ UNCHANGED <<clock, sessionVars, cliVars, normVars, pagerVars, consVars, proc, pt_key, portalVars, worldVars>>

SpecThrottle == InitThrottle /\ [][NextThrottle]_vars

(* C3: a call of _throttle_ok at clock reading `now` is permitted exactly when *)
(* now - last_cnpj_click_ts >= min_seconds, a permitted call leaves            *)
(* last_cnpj_click_ts = now, and every permitted call lies at least its        *)
(* min_seconds after every earlier permitted call of the session.              *)
C3_ThrottlePermitLaw ==
    /\ thr.called =>
          /\ thr.ok <=> (thr.now - thr.before >= thr.min)
          /\ thr.ok => last_cnpj_click_ts = thr.now
    /\ \A i, j \in 1..Len(permitted) :
          i < j => permitted[j].t - permitted[i].t >= permitted[j].min

(* Three permitted calls, the last one exactly min_seconds after the one before. *)
C3_Witness ==
    /\ Len(permitted) >= 3
    /\ thr.called /\ thr.ok
    /\ thr.now - thr.before = thr.min

(* C4: a rejected call returns wait = min_seconds - (now - last_cnpj_click_ts), *)
(* which is not negative, leaves last_cnpj_click_ts as it was and does not      *)
(* sleep.                                                                       *)
C4_ThrottleRejectFrame ==
    (thr.called /\ ~thr.ok) =>
        /\ thr.wait = thr.min - (thr.now - thr.before)
        /\ thr.wait >= 0
        /\ last_cnpj_click_ts = thr.before
        /\ sleeps = thr.sleeps_before

(* A permit, then a call 0.5 s (one tick) later with min_seconds = 2.0 s: *)
(* rejected with wait = 1.5 s (three ticks).                              *)
C4_Witness ==
    /\ thr.called /\ ~thr.ok
    /\ thr.min = MIN_SECONDS
    /\ Len(permitted) >= 1
    /\ permitted[Len(permitted)].t = thr.before
    /\ thr.now - thr.before = 1
    /\ thr.wait = 3

-----------------------------------------------------------------------------
(* Exhaustive pager: streamlit_app2._pt_fetch_all over pt_get_raw *)

PAGE_SIZE_DEFAULT == 50     \* page_size_default=50
TAMANHO_CALLERS == 100      \* "tamanho": 100 in every pt_* list endpoint
START_PAGE == 1             \* start_page=1

(* A dict of query parameters is a function from its keys to their values. *)
DictGet(d, k, default) == IF k \in DOMAIN d THEN d[k] ELSE default

DictSet(d, k, v) == [x \in DOMAIN d \cup {k} |-> IF x = k THEN v ELSE d[x]]

DictSetDefault(d, k, v) == IF k \in DOMAIN d THEN d ELSE DictSet(d, k, v)

(* base_params of the callers (lines 271-291) carry the filter and "tamanho"; *)
(* the other two shapes are what the signature also accepts.                  *)
BaseParamsArgs ==
    { [x \in {"filtro", "tamanho"} |-> IF x = "filtro" THEN 0 ELSE TAMANHO_CALLERS],
      [x \in {"filtro", "pagina", "tamanho"} |->
            IF x = "filtro" THEN 0 ELSE IF x = "pagina" THEN START_PAGE ELSE TAMANHO_CALLERS],
      [x \in {"filtro"} |-> 0] }

(* for k in page_key_order: if k in base_params: page_key = k; break *)
(* if not page_key: page_key = "pagina"                              *)
DetectPageKey(base_params) ==
    IF "pagina" \in DOMAIN base_params THEN "pagina"
    ELSE IF "tamanho" \in DOMAIN base_params THEN "tamanho"
    ELSE "pagina"

(* p = base_params.copy(); p.setdefault(page_key, start_page);            *)
(* p.setdefault("tamanho", base_params.get("tamanho", page_size_default)) *)
InitialParams(base_params, start_page) ==
    LET p1 == DictSetDefault(base_params, DetectPageKey(base_params), start_page)
    IN  DictSetDefault(p1, "tamanho", DictGet(base_params, "tamanho", PAGE_SIZE_DEFAULT))

(* What pt_get_raw can return: (None, meta) on a status other than 200      *)
(* ("status"), on an exception ("erro") and on a 200 whose body is the JSON *)
(* null ("headers"); a list of n items; any other JSON value.              *)
FailMetas == {"status", "erro", "headers"}

PtResponses ==
    {[kind |-> "fail", n |-> 0, meta |-> m] : m \in FailMetas}
    \cup {[kind |-> "list", n |-> n, meta |-> "headers"] : n \in 0..MaxPageLen}
    \cup {[kind |-> "obj", n |-> 0, meta |-> "headers"]}

(* The items of the page answered to the k-th request: item j of request k. *)
PageItems(k, n) == [j \in 1..n |-> [req |-> k, idx |-> j]]

ObjItem(k) == [req |-> k, idx |-> 0]

(* _pt_fetch_all up to the loop (lines 234-248). *)
PagerBegin(base_params, start_page, max_pages) ==
    IF ~pt_key
    THEN [pc |-> "done", base |-> base_params, max_pages |-> max_pages,
          page_key |-> "", p |-> base_params, iter |-> 0, items |-> <<>>,
          requests |-> <<>>, responses |-> <<>>, stop |-> "unavailable",
          ret |-> [none |-> TRUE, items |-> <<>>, meta |-> "erro_chave_ausente"]]
    ELSE [pc |-> "running", base |-> base_params, max_pages |-> max_pages,
          page_key |-> DetectPageKey(base_params),
          p |-> InitialParams(base_params, start_page),
          iter |-> 0, items |-> <<>>, requests |-> <<>>, responses |-> <<>>,
          stop |-> "", ret |-> [none |-> TRUE, items |-> <<>>, meta |-> ""]]

(* The return statement after the loop (line 264). *)
PagerReturn(pg, why) ==
    [pg EXCEPT !.pc = "done", !.stop = why,
               !.ret = [none |-> FALSE, items |-> pg.items, meta |-> EmptyDict]]

(* A loop body that keeps the pages gathered so far when a page fails. *)
PagerIterationKeepsPartial(pg, resp) ==
    LET k  == pg.iter + 1
        g0 == [pg EXCEPT !.iter = k,
                         !.requests = Append(pg.requests, pg.p),
                         !.responses = Append(pg.responses, resp)]
    IN
    IF resp.kind = "fail"
    THEN [g0 EXCEPT !.pc = "done", !.stop = "fail",
                    !.ret = [none |-> FALSE, items |-> pg.items, meta |-> resp.meta]]
    ELSE IF resp.kind = "list"
    THEN LET g1 == [g0 EXCEPT !.items = pg.items \o PageItems(k, resp.n)] IN
         IF resp.n = 0 THEN PagerReturn(g1, "empty")
         ELSE LET g2 == [g1 EXCEPT !.p = DictSet(pg.p, pg.page_key, pg.p[pg.page_key] + 1)] IN
              IF k = pg.max_pages THEN PagerReturn(g2, "ceiling") ELSE g2
    ELSE PagerReturn([g0 EXCEPT !.items = Append(pg.items, ObjItem(k))], "obj")

(* A loop body that keeps only the latest page instead of extending the list. *)
PagerIterationOverwrites(pg, resp) ==
    LET k  == pg.iter + 1
        g0 == [pg EXCEPT !.iter = k,
                         !.requests = Append(pg.requests, pg.p),
                         !.responses = Append(pg.responses, resp)]
    IN
    IF resp.kind = "fail"
    THEN [g0 EXCEPT !.pc = "done", !.stop = "fail",
                    !.ret = [none |-> TRUE, items |-> <<>>, meta |-> resp.meta]]
    ELSE IF resp.kind = "list"
    THEN LET g1 == [g0 EXCEPT !.items = IF resp.n = 0 THEN pg.items ELSE PageItems(k, resp.n)] IN
         IF resp.n = 0 THEN PagerReturn(g1, "empty")
         ELSE LET g2 == [g1 EXCEPT !.p = DictSet(pg.p, pg.page_key, pg.p[pg.page_key] + 1)] IN
              IF k = pg.max_pages THEN PagerReturn(g2, "ceiling") ELSE g2
    ELSE PagerReturn([g0 EXCEPT !.items = Append(pg.items, ObjItem(k))], "obj")

(* A loop body without the end of the range: it goes on while pages come. *)
PagerIterationNoCeiling(pg, resp) ==
    LET k  == pg.iter + 1
        g0 == [pg EXCEPT !.iter = k,
                         !.requests = Append(pg.requests, pg.p),
                         !.responses = Append(pg.responses, resp)]
    IN
    IF resp.kind = "fail"
    THEN [g0 EXCEPT !.pc = "done", !.stop = "fail",
                    !.ret = [none |-> TRUE, items |-> <<>>, meta |-> resp.meta]]
    ELSE IF resp.kind = "list"
    THEN LET g1 == [g0 EXCEPT !.items = pg.items \o PageItems(k, resp.n)] IN
         IF resp.n = 0 THEN PagerReturn(g1, "empty")
         ELSE [g1 EXCEPT !.p = DictSet(pg.p, pg.page_key, pg.p[pg.page_key] + 1)]
    ELSE PagerReturn([g0 EXCEPT !.items = Append(pg.items, ObjItem(k))], "obj")

(* One iteration of `for _ in range(max_pages)` (lines 250-263) on the answer *)
(* resp of pt_get_raw(path, p); the iteration that exhausts the range goes on *)
(* to the return statement.                                                   *)
PagerIteration(pg, resp) ==
    LET k  == pg.iter + 1
        g0 == [pg EXCEPT !.iter = k,
                         !.requests = Append(pg.requests, pg.p),
                         !.responses = Append(pg.responses, resp)]
    IN
    IF resp.kind = "fail"
    THEN [g0 EXCEPT !.pc = "done", !.stop = "fail",
                    !.ret = [none |-> TRUE, items |-> <<>>, meta |-> resp.meta]]
    ELSE IF resp.kind = "list"
    THEN LET g1 == [g0 EXCEPT !.items = pg.items \o PageItems(k, resp.n)] IN
         IF resp.n = 0 THEN PagerReturn(g1, "empty")
         ELSE LET g2 == [g1 EXCEPT !.p = DictSet(pg.p, pg.page_key, pg.p[pg.page_key] + 1)] IN
              IF k = pg.max_pages THEN PagerReturn(g2, "ceiling") ELSE g2
    ELSE PagerReturn([g0 EXCEPT !.items = Append(pg.items, ObjItem(k))], "obj")

(* time.sleep(sleep) runs after every non-empty list page (line 259). *)
PagerSleeps(resp) == IF resp.kind = "list" /\ resp.n > 0 THEN 1 ELSE 0

PagerStart ==
    /\ pager.pc = "idle"
    /\ \E bp \in BaseParamsArgs, mp \in 1..MaxPagesArg :
          pager' = PagerBegin(bp, START_PAGE, mp)
    /\ UNCHANGED sleeps

PagerStep ==
    /\ pager.pc = "running"
    /\ \E resp \in PtResponses :
          /\ pager' = PagerIteration(pager, resp)
          /\ sleeps' = sleeps + PagerSleeps(resp)

InitPager ==
    /\ InitBase
    /\ fetch = FetchIdle
    /\ retry = RetryIdle
    /\ disk = NoDisk
    /\ provedores = <<>>
    /\ txt = <<>>
    /\ proc = "streamlit"
    /\ pt_key \in BOOLEAN

NextPager ==
    \/ PagerStart /\ UNCHANGED <<clock, sessionVars, throttleVars, cliVars, normVars, consVars, proc, pt_key, portalVars, worldVars>>
    \/ PagerStep /\ UNCHANGED <<clock, sessionVars, throttleVars, cliVars, normVars, consVars, proc, pt_key, portalVars, worldVars>>

SpecPager == InitPager /\ [][NextPager]_vars

(* The concatenation, in request order, of the list pages answered to the *)
(* requests k..Len(rs).                                                   *)
RECURSIVE PagesFrom(_, _)
PagesFrom(k, rs) ==
    IF k > Len(rs) THEN <<>>
    ELSE (IF rs[k].kind = "list" THEN PageItems(k, rs[k].n) ELSE <<>>) \o PagesFrom(k + 1, rs)

(* The answers are n non-empty list pages followed by an empty list page. *)
NonEmptyThenEmpty(rs) ==
    /\ Len(rs) >= 1
    /\ rs[Len(rs)].kind = "list" /\ rs[Len(rs)].n = 0
    /\ \A k \in 1..(Len(rs) - 1) : rs[k].kind = "list" /\ rs[k].n > 0

(* C8: when the provider answers n non-empty list pages and then an empty *)
(* page, n < max_pages, _pt_fetch_all returns the n pages concatenated in  *)
(* request order with an empty error, after exactly n + 1 page requests.   *)
C8_PagerCollectsAllPages ==
    (/\ pager.pc # "idle"
     /\ NonEmptyThenEmpty(pager.responses)
     /\ Len(pager.responses) - 1 < pager.max_pages)
    => /\ pager.pc = "done"
       /\ ~pager.ret.none
       /\ pager.ret.items = PagesFrom(1, pager.responses)
       /\ pager.ret.meta = EmptyDict
       /\ Len(pager.requests) = Len(pager.responses)

(* Pages of 5, 5 and 0 items give 10 items and stop below max_pages. *)
C8_Witness ==
    /\ pager.pc = "done"
    /\ Len(pager.responses) = 3
    /\ pager.responses[1].kind = "list" /\ pager.responses[1].n = 5
    /\ pager.responses[2].kind = "list" /\ pager.responses[2].n = 5
    /\ pager.responses[3].kind = "list" /\ pager.responses[3].n = 0
    /\ Len(pager.ret.items) = 10
    /\ pager.stop = "empty"

(* C9: once a page request fails, _pt_fetch_all issues no further request *)
(* and returns (None, meta of the failure): no item of an earlier page is  *)
(* returned.                                                               *)
C9_PagerAbortDiscards ==
    \A k \in 1..(IF pager.pc = "idle" THEN 0 ELSE Len(pager.responses)) :
        pager.responses[k].kind = "fail" =>
            /\ pager.pc = "done"
            /\ k = Len(pager.requests)
            /\ pager.ret.none
            /\ pager.ret.items = <<>>
            /\ pager.ret.meta = pager.responses[k].meta

(* Page 1 holds 5 items, page 2 fails. *)
C9_Witness ==
    /\ pager.pc = "done"
    /\ Len(pager.responses) = 2
    /\ pager.responses[1].kind = "list" /\ pager.responses[1].n = 5
    /\ pager.responses[2].kind = "fail"
    /\ pager.ret.none

(* C10: a pagination that stopped because it reached max_pages returns     *)
(* something else than the (items, {}) a pagination that stopped on an     *)
(* empty page returns: the truncation is visible in the return value.      *)
C10_CeilingIsDistinctOutcome ==
    (pager.pc = "done" /\ pager.stop = "ceiling")
    => pager.ret # [none |-> FALSE, items |-> pager.items, meta |-> EmptyDict]

(* base_params as the five list endpoints build it: {<filter>: cnpj, "tamanho": 100}. *)
CallerBaseParams(base_params) ==
    /\ DOMAIN base_params = {"filtro", "tamanho"}
    /\ base_params["tamanho"] = TAMANHO_CALLERS

(* C11: in a pagination started by one of the five list endpoints, the k-th *)
(* request carries the page number start_page + k - 1 and the page size     *)
(* ("tamanho") of the first request.                                        *)
C11_PageNumberAdvancesSizeFixed ==
    (pager.pc # "idle" /\ CallerBaseParams(pager.base))
    => \A k \in 1..Len(pager.requests) :
          /\ "pagina" \in DOMAIN pager.requests[k]
          /\ pager.requests[k]["pagina"] = START_PAGE + k - 1
          /\ pager.requests[k]["tamanho"] = pager.requests[1]["tamanho"]

(* the call is started and its page requests return (timeout=30) *)
SpecPagerFair == InitPager /\ [][NextPager]_vars /\ WF_vars(NextPager)

(* the answer that ended the call, and the ones before it *)
LastResponse == pager.responses[Len(pager.responses)]
EarlierAreFullPages ==
    \A k \in 1..(Len(pager.responses) - 1) :
        pager.responses[k].kind = "list" /\ pager.responses[k].n > 0

(* C26: a call of _pt_fetch_all makes at most max_pages page requests and   *)
(* returns, whatever the provider answers: on the first empty page, the     *)
(* first object that is not a list, the first failed page, or with the      *)
(* max_pages-th page.                                                       *)
C26_PagerTerminatesWithinCeiling ==
    /\ [](pager.pc # "idle" => Len(pager.requests) <= pager.max_pages)
    /\ []((pager.pc = "done" /\ pager.stop # "unavailable") =>
            /\ EarlierAreFullPages
            /\ \/ pager.stop = "empty" /\ LastResponse.kind = "list" /\ LastResponse.n = 0
               \/ pager.stop = "obj" /\ LastResponse.kind = "obj"
               \/ pager.stop = "fail" /\ LastResponse.kind = "fail"
               \/ /\ pager.stop = "ceiling" /\ Len(pager.requests) = pager.max_pages
                  /\ LastResponse.kind = "list" /\ LastResponse.n > 0)
    /\ (pager.pc = "running" ~> pager.pc = "done")

(* a provider that never answers an empty page: the call ends at the ceiling *)
C26_Witness ==
    /\ pager.pc = "done" /\ pager.stop = "ceiling"
    /\ pager.max_pages = MaxPagesArg
    /\ Len(pager.requests) = MaxPagesArg
    /\ \A k \in 1..Len(pager.responses) : pager.responses[k].n = MaxPageLen

(* C27: when a page request is answered with a single object that is not a *)
(* list, the call ends there and returns exactly that object as its items. *)
C27_ObjectIsWholeResult ==
    (pager.pc # "idle" /\ Len(pager.responses) > 0 /\ LastResponse.kind = "obj") =>
        /\ pager.pc = "done"
        /\ ~pager.ret.none
        /\ pager.ret.items = <<ObjItem(Len(pager.requests))>>

-----------------------------------------------------------------------------
(* Identifier normalisation applied to bounded strings *)

NormChars == {"0", "2", ".", "/", "sup2", "ar3"}

(* "02.558.157/0001-62" *)
ExampleCnpjFormatted ==
    <<"0", "2", ".", "5", "5", "8", ".", "1", "5", "7", "/", "0", "0", "0", "1", "-", "6", "2">>

(* "02558157000162" *)
ExampleCnpjDigits ==
    <<"0", "2", "5", "5", "8", "1", "5", "7", "0", "0", "0", "1", "6", "2">>

NormInputs ==
    UNION {[1..n -> NormChars] : n \in 0..MaxLen} \cup {ExampleCnpjFormatted, ExampleCnpjDigits}

(* _normalize_cnpj(txt) and somente_digitos(txt) *)
ApplyOnce ==
    /\ norm_out.applied = 0
    /\ norm_out' = [applied |-> 1, a1 |-> _normalize_cnpj(txt), b1 |-> somente_digitos(txt),
                    a2 |-> <<>>, b2 |-> <<>>]
    /\ UNCHANGED txt

(* each function applied to its own result *)
ApplyTwice ==
    /\ norm_out.applied = 1
    /\ norm_out' = [norm_out EXCEPT !.applied = 2,
                                    !.a2 = _normalize_cnpj(norm_out.a1),
                                    !.b2 = somente_digitos(norm_out.b1)]
    /\ UNCHANGED txt

InitNorm ==
    /\ InitBase
    /\ fetch = FetchIdle
    /\ retry = RetryIdle
    /\ disk = NoDisk
    /\ provedores = <<>>
    /\ txt \in NormInputs
    /\ proc = "cli"
    /\ pt_key = TRUE

NextNorm ==
    \/ ApplyOnce /\ UNCHANGED <<clock, sessionVars, throttleVars, cliVars, pagerVars, consVars, proc, pt_key, portalVars, worldVars>>
    \/ ApplyTwice /\ UNCHANGED <<clock, sessionVars, throttleVars, cliVars, pagerVars, consVars, proc, pt_key, portalVars, worldVars>>

SpecNorm == InitNorm /\ [][NextNorm]_vars

(* The decimal digits of s (the characters \d matches), in their order. *)
RECURSIVE DigitCharsOf(_)
DigitCharsOf(s) ==
    IF s = <<>> THEN <<>>
    ELSE (IF UnicodeDecimal(Head(s)) THEN <<Head(s)>> ELSE <<>>) \o DigitCharsOf(Tail(s))

(* C2: on every input _normalize_cnpj and somente_digitos both return the   *)
(* digit characters of the input in their order, they agree, and applying   *)
(* either one to its own result changes nothing.                            *)
C2_NormalizersAgree ==
    /\ norm_out.applied >= 1 =>
          /\ norm_out.a1 = DigitCharsOf(txt)
          /\ norm_out.b1 = DigitCharsOf(txt)
          /\ norm_out.a1 = norm_out.b1
    /\ norm_out.applied = 2 =>
          /\ norm_out.a2 = norm_out.a1
          /\ norm_out.b2 = norm_out.b1

-----------------------------------------------------------------------------
(* CLI: the four normalisers of teste_pt_sansoes.py.                        *)
(* A provider payload d is a dict: a function from the keys it holds to     *)
(* their values.  A nested dict is held by its paths ("endereco.uf"); a     *)
(* nested dict none of whose paths is present stands for a missing or empty *)
(* one, which `d.get(k) or {}` does not tell apart.  Scalar values are      *)
(* tokens, list values are sequences of items (dicts again).                *)

Zero == "<0>"
Blank == " "

(* bool(v) is False *)
Falsy(v) == v \in {NoneV, EmptyStr, EmptyDict, EmptyList, Zero}

(* a or b *)
Or(a, b) == IF Falsy(a) THEN b ELSE a

(* d.get(k) for a key holding a scalar *)
Get(d, k) == IF k \in DOMAIN d THEN d[k] ELSE NoneV

(* d.get(k) or [] for a key holding a list *)
GetList(d, k) == IF k \in DOMAIN d THEN d[k] ELSE <<>>

(* str(v) *)
PyStr(v) ==
    IF v = EmptyDict THEN "{}" ELSE IF v = EmptyList THEN "[]" ELSE IF v = Zero THEN "0" ELSE v

(* A str held in a list that may also hold dicts (telefones): the str and  *)
(* the dict are both records, told apart as isinstance(t, str) tells them. *)
Str(t) == [str |-> t]

IsStr(x) == DOMAIN x = {"str"}

(* v.strip() of a string *)
PyStrip(v) == IF v = Blank THEN EmptyStr ELSE v

(* [f(x) for x in items] *)
RECURSIVE MapSeq(_, _)
MapSeq(F(_), items) ==
    IF items = <<>> THEN <<>> ELSE <<F(Head(items))>> \o MapSeq(F, Tail(items))

(* the truthy elements of a sequence of scalars *)
RECURSIVE TruthyOnly(_)
TruthyOnly(vs) ==
    IF vs = <<>> THEN <<>>
    ELSE (IF Falsy(Head(vs)) THEN <<>> ELSE <<Head(vs)>>) \o TruthyOnly(Tail(vs))

CnaeCodigoDescricao(item) == [codigo |-> Get(item, "codigo"), descricao |-> Get(item, "descricao")]

CnaeCodeText(item) == [codigo |-> Get(item, "code"), descricao |-> Get(item, "text")]

CnaeEither(item) ==
    [codigo |-> Or(Get(item, "codigo"), Get(item, "code")),
     descricao |-> Or(Get(item, "descricao"), Get(item, "text"))]

QsaMinhaReceita(x) ==
    [nome |-> Or(Or(Get(x, "nome_socio"), Get(x, "nome")), EmptyStr),
     qualificacao |-> Or(Or(Get(x, "qualificacao_socio"), Get(x, "qualificacao")), EmptyStr)]

QsaReceitaWs(x) ==
    [nome |-> Or(Get(x, "nome"), EmptyStr),
     qualificacao |-> Or(Or(Get(x, "qual"), Get(x, "qualificacao")), EmptyStr)]

QsaSocios(x) ==
    [nome |-> Or(Or(Get(x, "nome"), Get(x, "nome_socio")), EmptyStr),
     qualificacao |-> Or(Or(Get(x, "qualificacao"), Get(x, "qualificacao_socio")), EmptyStr)]

EnderecoKeys == <<"logradouro", "numero", "complemento", "bairro", "municipio", "uf", "cep">>

EnderecoKeySet == {EnderecoKeys[i] : i \in 1..Len(EnderecoKeys)}

(* lines 96-146 *)
norm_from_minhareceita(cnpj, d) ==
    [fonte |-> "minha_receita", erro_normalizacao |-> FALSE, cnpj |-> cnpj,
     razao_social |-> Or(Get(d, "razao_social"), Get(d, "nome_empresarial")),
     nome_fantasia |-> Get(d, "nome_fantasia"),
     abertura |-> Get(d, "data_inicio_atividade"),
     natureza_juridica |-> Get(d, "natureza_juridica"),
     situacao |-> IF Get(d, "situacao_cadastral") # NoneV
                  THEN PyStr(Get(d, "situacao_cadastral"))
                  ELSE Get(d, "descricao_situacao_cadastral"),
     situacao_data |-> Get(d, "data_situacao_cadastral"),
     capital_social |-> Get(d, "capital_social"),
     cnae_principal |-> [codigo |-> Get(d, "cnae_fiscal"),
                         descricao |-> Get(d, "cnae_fiscal_descricao")],
     cnaes_secundarios |-> MapSeq(CnaeCodigoDescricao, GetList(d, "cnaes_secundarios")),
     endereco |-> [k \in EnderecoKeySet |-> Get(d, k)],
     telefones |-> MapSeq(Str, TruthyOnly(<<PyStrip(Or(Get(d, "ddd_telefone_1"), EmptyStr)),
                                            PyStrip(Or(Get(d, "ddd_telefone_2"), EmptyStr))>>)),
     email |-> Get(d, "email"),
     qsa |-> MapSeq(QsaMinhaReceita, GetList(d, "qsa"))]

(* lines 148-200 *)
norm_from_receitaws(cnpj, d) ==
    LET atv_p == GetList(d, "atividade_principal") IN
    [fonte |-> "receitaws", erro_normalizacao |-> FALSE, cnpj |-> cnpj,
     razao_social |-> Get(d, "nome"),
     nome_fantasia |-> Get(d, "fantasia"),
     abertura |-> Get(d, "abertura"),
     natureza_juridica |-> Get(d, "natureza_juridica"),
     situacao |-> Get(d, "situacao"),
     situacao_data |-> Or(Get(d, "data_situacao"), Get(d, "data_situacao_especial")),
     capital_social |-> Get(d, "capital_social"),
     cnae_principal |-> IF atv_p # <<>>
                        THEN [codigo |-> Get(atv_p[1], "code"), descricao |-> Get(atv_p[1], "text")]
                        ELSE [codigo |-> NoneV, descricao |-> NoneV],
     cnaes_secundarios |-> MapSeq(CnaeCodeText, GetList(d, "atividades_secundarias")),
     endereco |-> [k \in EnderecoKeySet |-> Get(d, k)],
     telefones |-> MapSeq(Str, TruthyOnly(<<PyStrip(Or(Get(d, "telefone"), EmptyStr))>>)),
     email |-> Get(d, "email"),
     qsa |-> MapSeq(QsaReceitaWs, GetList(d, "qsa"))]

(* lines 202-257 *)
norm_from_cnpjws(cnpj, d) ==
    LET sec == IF GetList(d, "cnaes_secundarias") # <<>>
               THEN GetList(d, "cnaes_secundarias") ELSE GetList(d, "cnaes_secundarios")
        soc == IF GetList(d, "socios") # <<>> THEN GetList(d, "socios") ELSE GetList(d, "qsa")
        tel == IF ~Falsy(PyStrip(Get(d, "telefone"))) THEN <<PyStrip(Get(d, "telefone"))>> ELSE <<>>
        StrOfStr(t) == Str(PyStr(t))
    IN
    [fonte |-> "cnpj_ws", erro_normalizacao |-> FALSE, cnpj |-> cnpj,
     razao_social |-> Or(Or(Get(d, "razao_social"), Get(d, "nome_empresarial")), Get(d, "razaoSocial")),
     nome_fantasia |-> Or(Get(d, "nome_fantasia"), Get(d, "nomeFantasia")),
     abertura |-> Or(Get(d, "data_inicio_atividade"), Get(d, "abertura")),
     natureza_juridica |-> Or(Get(d, "natureza_juridica"), Get(d, "naturezaJuridica")),
     situacao |-> Or(Get(d, "situacao_cadastral"), Get(d, "situacao")),
     situacao_data |-> Or(Get(d, "data_situacao_cadastral"), Get(d, "data_situacao")),
     capital_social |-> Get(d, "capital_social"),
     cnae_principal |-> [codigo |-> Or(Get(d, "cnae_fiscal.codigo"), Get(d, "cnae_fiscal.code")),
                         descricao |-> Or(Get(d, "cnae_fiscal.descricao"), Get(d, "cnae_fiscal.text"))],
     cnaes_secundarios |-> MapSeq(CnaeEither, sec),
     endereco |-> [k \in EnderecoKeySet |-> Or(Get(d, "endereco." \o k), Get(d, k))],
     telefones |-> MapSeq(Str, tel) \o MapSeq(StrOfStr, TruthyOnly(GetList(d, "telefones"))),
     email |-> Get(d, "email"),
     qsa |-> MapSeq(QsaSocios, soc)]

EstabelecimentoPaths ==
    {"estabelecimento.nome_fantasia", "estabelecimento.cnae.codigo",
     "estabelecimento.cnae.descricao", "estabelecimento.cnaes_secundarias",
     "estabelecimento.telefones"}
    \cup {"estabelecimento.endereco." \o k : k \in EnderecoKeySet}

(* lines 259-305; empresa = d.get("estabelecimento") or d *)
norm_from_serpro(cnpj, d) ==
    LET hasEstab == (DOMAIN d \cap EstabelecimentoPaths) # {}
        pre == IF hasEstab THEN "estabelecimento." ELSE ""
        cnaeInEmpresa == {pre \o "cnae.codigo", pre \o "cnae.descricao"} \cap DOMAIN d # {}
        cp == IF cnaeInEmpresa THEN pre \o "cnae." ELSE "cnae_principal."
        sec == IF GetList(d, pre \o "cnaes_secundarias") # <<>>
               THEN GetList(d, pre \o "cnaes_secundarias") ELSE GetList(d, "cnaes_secundarios")
        soc == IF GetList(d, "socios") # <<>> THEN GetList(d, "socios") ELSE GetList(d, "qsa")
    IN
    [fonte |-> "serpro_consulta_cnpj", erro_normalizacao |-> FALSE, cnpj |-> cnpj,
     razao_social |-> Or(Or(Get(d, "razao_social"), Get(d, "nome_empresarial")), Get(d, "razaoSocial")),
     nome_fantasia |-> Or(Get(d, pre \o "nome_fantasia"), Get(d, "nome_fantasia")),
     abertura |-> Or(Get(d, "data_inicio_atividade"), Get(d, "abertura")),
     natureza_juridica |-> Get(d, "natureza_juridica"),
     situacao |-> Or(Get(d, "situacao_cadastral"), Get(d, "situacao")),
     situacao_data |-> Or(Get(d, "data_situacao_cadastral"), Get(d, "data_situacao")),
     capital_social |-> Get(d, "capital_social"),
     cnae_principal |-> [codigo |-> Get(d, cp \o "codigo"), descricao |-> Get(d, cp \o "descricao")],
     cnaes_secundarios |-> MapSeq(CnaeEither, sec),
     endereco |-> [k \in EnderecoKeySet |-> Get(d, pre \o "endereco." \o k)],
     telefones |-> GetList(d, pre \o "telefones"),
     email |-> Get(d, "email"),
     qsa |-> MapSeq(QsaSocios, soc)]

-----------------------------------------------------------------------------
(* CLI: consolidate_results (lines 311-392).                                *)
(* A raw result is [fonte, ok, is_dict, data]: is_dict is FALSE when the    *)
(* body parsed to a non-empty JSON value that is not an object, on which    *)
(* the normaliser's first d.get raises AttributeError.                      *)

ordem == <<"serpro_consulta_cnpj", "cnpj_ws", "minha_receita", "receitaws">>

ScalarKeys ==
    <<"razao_social", "nome_fantasia", "abertura", "natureza_juridica", "situacao",
      "situacao_data", "capital_social", "email">>

(* {"fonte": fonte, "erro_normalizacao": str(e)}, as .get() reads it *)
ErroNormalizacao(fonte) ==
    [fonte |-> fonte, erro_normalizacao |-> TRUE, cnpj |-> <<>>,
     razao_social |-> NoneV, nome_fantasia |-> NoneV, abertura |-> NoneV,
     natureza_juridica |-> NoneV, situacao |-> NoneV, situacao_data |-> NoneV,
     capital_social |-> NoneV,
     cnae_principal |-> [codigo |-> NoneV, descricao |-> NoneV],
     cnaes_secundarios |-> <<>>,
     endereco |-> [k \in EnderecoKeySet |-> NoneV],
     telefones |-> <<>>, email |-> NoneV, qsa |-> <<>>]

(* the initial unificado, lines 331-346 *)
UnificadoVazio(cnpj) ==
    [cnpj |-> cnpj,
     razao_social |-> NoneV, nome_fantasia |-> NoneV, abertura |-> NoneV,
     natureza_juridica |-> NoneV, situacao |-> NoneV, situacao_data |-> NoneV,
     capital_social |-> NoneV,
     cnae_principal |-> [codigo |-> NoneV, descricao |-> NoneV],
     cnaes_secundarios |-> <<>>,
     endereco |-> [k \in EnderecoKeySet |-> NoneV],
     telefones |-> <<>>, email |-> NoneV, qsa |-> <<>>]

(* the same turn without the `if rr.get("ok") else {}` of line 316 *)
NormalizeOneIgnoresOk(cnpj, rr) ==
    LET truthy == ~rr.is_dict \/ DOMAIN rr.data # {} IN
    IF ~truthy THEN <<>>
    ELSE IF ~rr.is_dict THEN <<ErroNormalizacao(rr.fonte)>>
    ELSE IF rr.fonte = "minha_receita" THEN <<norm_from_minhareceita(cnpj, rr.data)>>
    ELSE IF rr.fonte = "receitaws" THEN <<norm_from_receitaws(cnpj, rr.data)>>
    ELSE IF rr.fonte = "cnpj_ws" THEN <<norm_from_cnpjws(cnpj, rr.data)>>
    ELSE IF rr.fonte = "serpro_consulta_cnpj" THEN <<norm_from_serpro(cnpj, rr.data)>>
    ELSE <<>>

(* one turn of the loop of lines 314-327: the entries rr adds to normalized *)
NormalizeOne(cnpj, rr) ==
    LET truthy == rr.ok /\ (~rr.is_dict \/ DOMAIN rr.data # {}) IN
    IF ~truthy THEN <<>>
    ELSE IF ~rr.is_dict THEN <<ErroNormalizacao(rr.fonte)>>
    ELSE IF rr.fonte = "minha_receita" THEN <<norm_from_minhareceita(cnpj, rr.data)>>
    ELSE IF rr.fonte = "receitaws" THEN <<norm_from_receitaws(cnpj, rr.data)>>
    ELSE IF rr.fonte = "cnpj_ws" THEN <<norm_from_cnpjws(cnpj, rr.data)>>
    ELSE IF rr.fonte = "serpro_consulta_cnpj" THEN <<norm_from_serpro(cnpj, rr.data)>>
    ELSE <<>>

RECURSIVE Normalized(_, _)
Normalized(cnpj, rrs) ==
    IF rrs = <<>> THEN <<>> ELSE NormalizeOne(cnpj, Head(rrs)) \o Normalized(cnpj, Tail(rrs))

(* json.dumps(x, sort_keys=True) of a dict of scalars: its items by key *)
JsonKeyOrder == <<"codigo", "ddd", "descricao", "nome", "numero", "qualificacao", "str">>

json_dumps(x) ==
    LET Held(k) == k \in DOMAIN x
        Item(k) == <<k, x[k]>>
    IN MapSeq(Item, SelectSeq(JsonKeyOrder, Held))

SeqRange(q) == {q[i] : i \in 1..Len(q)}

(* the same, comparing entries by their first key alone *)
RECURSIVE extend_unique_by_first_key(_, _)
extend_unique_by_first_key(lst, items) ==
    IF items = <<>> THEN lst
    ELSE LET it == Head(items)
             seen == {Head(json_dumps(lst[i])) : i \in 1..Len(lst)}
         IN extend_unique_by_first_key(
                IF Head(json_dumps(it)) \in seen THEN lst ELSE Append(lst, it), Tail(items))

(* lines 354-359 *)
RECURSIVE extend_unique(_, _)
extend_unique(lst, items) ==
    IF items = <<>> THEN lst
    ELSE LET it == Head(items)
             seen == {json_dumps(lst[i]) : i \in 1..Len(lst)}
         IN extend_unique(IF json_dumps(it) \in seen THEN lst ELSE Append(lst, it), Tail(items))

pick_overwrites(unificado, key, src) == [unificado EXCEPT ![key] = src]

(* lines 348-351 *)
pick(unificado, key, src) ==
    IF unificado[key] \in {NoneV, EmptyStr, EmptyList, EmptyDict}
    THEN [unificado EXCEPT ![key] = src]
    ELSE unificado

(* lines 366-369 *)
RECURSIVE MergeScalars(_, _, _)
MergeScalars(unificado, cand, keys) ==
    IF keys = <<>> THEN unificado
    ELSE LET k == Head(keys)
             v == cand[k]
         IN MergeScalars(IF v \notin {NoneV, EmptyStr, EmptyList} THEN pick(unificado, k, v)
                         ELSE unificado,
                         cand, Tail(keys))

(* lines 371-374 *)
MergeCnaePrincipal(unificado, cand) ==
    LET cp == cand.cnae_principal IN
    IF unificado.cnae_principal.codigo \in {NoneV, EmptyStr} /\ ~Falsy(cp.codigo)
    THEN [unificado EXCEPT !.cnae_principal = [codigo |-> cp.codigo, descricao |-> cp.descricao]]
    ELSE unificado

(* lines 379-384 *)
MergeEndereco(unificado, cand) ==
    [unificado EXCEPT !.endereco =
        [ek \in EnderecoKeySet |->
            IF @[ek] \in {NoneV, EmptyStr} /\ ~Falsy(cand.endereco[ek])
            THEN cand.endereco[ek] ELSE @[ek]]]

(* line 387: {"numero": t} if isinstance(t, str) else t *)
WrapTelefone(t) == IF IsStr(t) THEN [numero |-> t.str] ELSE t

(* the body of the loop of lines 362-390 for one candidate *)
MergeCand(unificado, cand) ==
    LET u1 == MergeScalars(unificado, cand, ScalarKeys)
        u2 == MergeCnaePrincipal(u1, cand)
        u3 == [u2 EXCEPT !.cnaes_secundarios = extend_unique(@, cand.cnaes_secundarios)]
        u4 == MergeEndereco(u3, cand)
        u5 == [u4 EXCEPT !.telefones = extend_unique(@, MapSeq(WrapTelefone, cand.telefones))]
    IN [u5 EXCEPT !.qsa = extend_unique(@, cand.qsa)]

CandidatesInListOrder(normalized) == normalized

(* line 363 for each fonte of ordem: the first entry of normalized of that fonte *)
CandidatesInTrustOrder(normalized) ==
    LET Of(fonte) == SelectSeq(normalized, LAMBDA n : n.fonte = fonte)
        First(fonte) == IF Of(fonte) = <<>> THEN <<>> ELSE <<Head(Of(fonte))>>
    IN First(ordem[1]) \o First(ordem[2]) \o First(ordem[3]) \o First(ordem[4])

RECURSIVE MergeAll(_, _)
MergeAll(unificado, cands) ==
    IF cands = <<>> THEN unificado
    ELSE MergeAll(MergeCand(unificado, Head(cands)), Tail(cands))

consolidate_results(cnpj, rrs) ==
    LET normalized == Normalized(cnpj, rrs) IN
    [unificado |-> MergeAll(UnificadoVazio(cnpj), CandidatesInTrustOrder(normalized)),
     normalizados |-> normalized,
     raw |-> rrs]

-----------------------------------------------------------------------------
(* CLI: main (lines 459-507) and the answers of the providers it asks.      *)

RequiredProviders == {"minha_receita", "receitaws"}

(* the providers asked only when their token is given (lines 482-485) *)
TokenProviders == {"cnpj_ws", "serpro_consulta_cnpj"}

(* the body a provider sends before anything is known of it: {} *)
EmptyAnswer == [ok |-> TRUE, is_dict |-> TRUE, data |-> <<>>]

(* sample list items, under the key names each provider uses *)
CnaeItem(fonte, c, d) ==
    IF fonte \in {"receitaws", "serpro_consulta_cnpj"}
    THEN [code |-> c, text |-> d] ELSE [codigo |-> c, descricao |-> d]

CnaeLists(fonte) ==
    { <<CnaeItem(fonte, "c1", "d1")>>,
      <<CnaeItem(fonte, "c1", "d9"), CnaeItem(fonte, "c2", "d2")>>,
      <<CnaeItem(fonte, "c2", "d2"), CnaeItem(fonte, "c1", "d1"), CnaeItem(fonte, "c2", "d2")>> }

QsaItem(fonte, n, q) ==
    IF fonte = "minha_receita" THEN [nome_socio |-> n, qualificacao_socio |-> q]
    ELSE IF fonte = "receitaws" THEN [nome |-> n, qual |-> q]
    ELSE [nome |-> n, qualificacao |-> q]

QsaLists(fonte) ==
    { <<QsaItem(fonte, "n1", "q1")>>,
      <<QsaItem(fonte, "n2", "q2"), QsaItem(fonte, "n1", "q1")>> }

(* the <<key, value>> pairs a provider's answer may hold *)
ScalarMenu(fonte) ==
    LET rs == IF fonte = "receitaws" THEN "nome" ELSE "razao_social"
        nf == IF fonte = "receitaws" THEN "fantasia" ELSE "nome_fantasia"
        ab == IF fonte = "receitaws" THEN "abertura" ELSE "data_inicio_atividade"
        si == IF fonte = "receitaws" THEN "situacao" ELSE "situacao_cadastral"
        sd == IF fonte = "receitaws" THEN "data_situacao" ELSE "data_situacao_cadastral"
    IN ({rs} \X {"X", "Y", EmptyStr, EmptyDict})
       \cup ({nf, ab, "natureza_juridica", si, sd, "capital_social", "email"} \X {"Z"})
       \cup {<<"capital_social", Zero>>, <<si, Zero>>}
       \cup (IF fonte = "receitaws" THEN {<<"data_situacao_especial", "Y">>}
             ELSE {<<"nome_empresarial", "Y">>})

CnaePrincipalMenu(fonte) ==
    IF fonte = "minha_receita"
    THEN {<<"cnae_fiscal", "c1">>, <<"cnae_fiscal", "c2">>, <<"cnae_fiscal_descricao", "d1">>}
    ELSE IF fonte = "receitaws"
    THEN {"atividade_principal"} \X { <<[code |-> "c1", text |-> "d1"]>>,
                                     <<[x \in {"text"} |-> "d2"]>>,
                                     <<[x \in {"code"} |-> "c2"]>> }
    ELSE IF fonte = "cnpj_ws"
    THEN {<<"cnae_fiscal.codigo", "c1">>, <<"cnae_fiscal.code", "c2">>,
          <<"cnae_fiscal.descricao", "d1">>}
    ELSE {<<"cnae_principal.codigo", "c1">>, <<"cnae_principal.descricao", "d2">>,
          <<"estabelecimento.cnae.codigo", "c2">>}

EnderecoMenu(fonte) ==
    IF fonte \in {"minha_receita", "receitaws"}
    THEN {<<"logradouro", "r1">>, <<"logradouro", "r2">>, <<"numero", Zero>>, <<"uf", "SP">>}
    ELSE IF fonte = "cnpj_ws"
    THEN {<<"endereco.logradouro", "r1">>, <<"logradouro", "r2">>, <<"endereco.numero", Zero>>,
          <<"endereco.uf", "SP">>}
    ELSE {<<"endereco.logradouro", "r1">>, <<"endereco.logradouro", "r2">>,
          <<"endereco.numero", Zero>>, <<"estabelecimento.endereco.uf", "RJ">>}

ListMenu(fonte) ==
    IF fonte = "minha_receita"
    THEN ({"cnaes_secundarios"} \X CnaeLists(fonte)) \cup ({"qsa"} \X QsaLists(fonte))
         \cup {<<"ddd_telefone_1", "t1">>, <<"ddd_telefone_1", Blank>>,
               <<"ddd_telefone_2", "t1">>, <<"ddd_telefone_2", "t2">>}
    ELSE IF fonte = "receitaws"
    THEN ({"atividades_secundarias"} \X CnaeLists(fonte)) \cup ({"qsa"} \X QsaLists(fonte))
         \cup {<<"telefone", "t1">>, <<"telefone", Blank>>}
    ELSE IF fonte = "cnpj_ws"
    THEN ({"cnaes_secundarias"} \X CnaeLists(fonte)) \cup ({"socios"} \X QsaLists(fonte))
         \cup {<<"telefone", "t2">>, <<"telefones", <<"t1", "t2">> >>,
               <<"telefones", <<EmptyStr, "t1">> >>}
    ELSE ({"cnaes_secundarios", "estabelecimento.cnaes_secundarias"} \X CnaeLists(fonte))
         \cup ({"socios"} \X QsaLists(fonte))
         \cup {<<"telefones", <<Str("t1")>> >>,
               <<"telefones", <<[numero |-> "t1"], Str("t2")>> >>,
               <<"estabelecimento.telefones", <<Str("t2")>> >>}

Menu(fonte) == ScalarMenu(fonte) \cup CnaePrincipalMenu(fonte) \cup EnderecoMenu(fonte) \cup ListMenu(fonte)

(* what the answers explored so far cost against MaxCells *)
Cost(a) == Cardinality(DOMAIN a.data) + (IF a.ok THEN 0 ELSE 1) + (IF a.is_dict THEN 0 ELSE 1)

RECURSIVE CostOf(_, _)
CostOf(answers, fontes) ==
    IF fontes = {} THEN 0
    ELSE LET f == CHOOSE x \in fontes : TRUE IN Cost(answers[f]) + CostOf(answers, fontes \ {f})

(* the provider's record of the company holds key k with value v *)
ProviderHolds(fonte, k, v) ==
    /\ cli.pc = "start"
    /\ fonte \in DOMAIN provedores
    /\ provedores[fonte].is_dict
    /\ k \notin DOMAIN provedores[fonte].data
    /\ CostOf(provedores, DOMAIN provedores) < MaxCells
    /\ provedores' = [provedores EXCEPT ![fonte].data = DictSet(@, k, v)]
    /\ UNCHANGED cli

(* the provider is down or answers with an error status: ok is False (lines 52-54) *)
ProviderFails(fonte) ==
    /\ cli.pc = "start"
    /\ fonte \in DOMAIN provedores
    /\ provedores[fonte].ok
    /\ CostOf(provedores, DOMAIN provedores) < MaxCells
    /\ provedores' = [provedores EXCEPT ![fonte].ok = FALSE]
    /\ UNCHANGED cli

(* the provider answers 200 with a JSON body that is a non-empty array *)
ProviderAnswersArray(fonte) ==
    /\ cli.pc = "start"
    /\ fonte \in DOMAIN provedores
    /\ provedores[fonte].is_dict
    /\ DOMAIN provedores[fonte].data = {}
    /\ CostOf(provedores, DOMAIN provedores) < MaxCells
    /\ provedores' = [provedores EXCEPT ![fonte].is_dict = FALSE]
    /\ UNCHANGED cli

(* the fetch_* functions, lines 60-81, over http_get *)
Fetch(fonte) == [fonte |-> fonte, ok |-> provedores[fonte].ok,
                 is_dict |-> provedores[fonte].is_dict, data |-> provedores[fonte].data]

(* resultados_raw of lines 479-485 *)
FetchAll ==
    <<Fetch("minha_receita"), Fetch("receitaws")>>
    \o (IF "cnpj_ws" \in DOMAIN provedores THEN <<Fetch("cnpj_ws")>> ELSE <<>>)
    \o (IF "serpro_consulta_cnpj" \in DOMAIN provedores
        THEN <<Fetch("serpro_consulta_cnpj")>> ELSE <<>>)

(* one run of main on the argument txt *)
Main ==
    /\ proc = "cli"
    /\ cli.pc = "start"
    /\ LET cnpj == somente_digitos(txt) IN
       IF Len(cnpj) # CNPJ_LEN
       THEN /\ cli' = [pc |-> "exit", code |-> 2, cnpj |-> cnpj]
            /\ UNCHANGED <<raw_results, consolidado>>
       ELSE /\ raw_results' = FetchAll
            /\ consolidado' = consolidate_results(cnpj, FetchAll)
            /\ cli' = [pc |-> "exit", code |-> 0, cnpj |-> cnpj]
    /\ UNCHANGED provedores

ProviderSets == {RequiredProviders \cup t : t \in SUBSET TokenProviders}

InitCli ==
    /\ InitBase
    /\ fetch = FetchIdle
    /\ retry = RetryIdle
    /\ disk = NoDisk
    /\ txt = ExampleCnpjFormatted
    /\ proc = "cli"
    /\ pt_key = TRUE
    /\ provedores \in {[f \in ps |-> EmptyAnswer] : ps \in ProviderSets}

NextCli ==
    \/ \E fonte \in RequiredProviders \cup TokenProviders : \E kv \in Menu(fonte) :
          ProviderHolds(fonte, kv[1], kv[2])
          /\ UNCHANGED <<clock, sessionVars, throttleVars, normVars, pagerVars, consVars, proc, pt_key, portalVars, worldVars>>
    \/ \E fonte \in RequiredProviders \cup TokenProviders :
          ProviderFails(fonte)
          /\ UNCHANGED <<clock, sessionVars, throttleVars, normVars, pagerVars, consVars, proc, pt_key, portalVars, worldVars>>
    \/ \E fonte \in RequiredProviders \cup TokenProviders :
          ProviderAnswersArray(fonte)
          /\ UNCHANGED <<clock, sessionVars, throttleVars, normVars, pagerVars, consVars, proc, pt_key, portalVars, worldVars>>
    \/ Main /\ UNCHANGED <<clock, sessionVars, throttleVars, normVars, pagerVars, proc, pt_key, portalVars, worldVars>>

SpecCli == InitCli /\ [][NextCli]_vars

-----------------------------------------------------------------------------
(* Claims on consolidate_results, stated on the run of main that called it. *)

Consolidated == cli.pc = "exit" /\ cli.code = 0

Empty4 == {NoneV, EmptyStr, EmptyList, EmptyDict}

ListKeys == {"cnaes_secundarios", "telefones", "qsa"}

(* the canonical records of one provider among the normalised ones *)
RecordsOf(fonte) == SelectSeq(consolidado.normalizados, LAMBDA n : n.fonte = fonte)

(* positions in the trust order of the providers with a non-empty value of k *)
Suppliers(k) == {i \in 1..Len(ordem) : \E j \in 1..Len(RecordsOf(ordem[i])) :
                                          RecordsOf(ordem[i])[j][k] \notin Empty4}

MinOf(S) == CHOOSE i \in S : \A j \in S : i <= j

(* C5: each unified scalar field is the value of the first provider in the  *)
(* trust order serpro_consulta_cnpj, cnpj_ws, minha_receita, receitaws that *)
(* has a non-empty value for it, and is empty when no provider has one: a   *)
(* lower-trust provider never overrides a higher-trust one.                 *)
C5_ScalarFirstInTrustOrder ==
    Consolidated =>
        \A ki \in 1..Len(ScalarKeys) :
            LET k == ScalarKeys[ki] IN
            IF Suppliers(k) = {}
            THEN consolidado.unificado[k] \in Empty4
            ELSE consolidado.unificado[k] = RecordsOf(ordem[MinOf(Suppliers(k))])[1][k]

(* two providers hold different legal names and the higher-trust one is kept, *)
(* while a field only the lower-trust one holds is taken from it              *)
C5_Witness ==
    /\ Consolidated
    /\ Cardinality(Suppliers("razao_social")) = 2
    /\ \E i, j \in Suppliers("razao_social") :
          /\ i < j
          /\ RecordsOf(ordem[i])[1].razao_social # RecordsOf(ordem[j])[1].razao_social
          /\ consolidado.unificado.razao_social = RecordsOf(ordem[i])[1].razao_social

(* the entries the providers supply for a list field, in trust order *)
RECURSIVE Supplied(_, _, _)
Supplied(k, i, wrap) ==
    IF i > Len(ordem) THEN <<>>
    ELSE LET rs == RecordsOf(ordem[i])
             own == IF rs = <<>> THEN <<>> ELSE rs[1][k]
             Held(t) == IF wrap /\ k = "telefones" /\ IsStr(t) THEN [numero |-> t.str] ELSE t
         IN MapSeq(Held, own) \o Supplied(k, i + 1, wrap)

FirstIndex(q, e) == MinOf({i \in 1..Len(q) : q[i] = e})

(* u is q without its repeated entries, in first-seen order *)
IsOrderedUnion(u, q) ==
    /\ SeqRange(u) = SeqRange(q)
    /\ \A i, j \in 1..Len(u) : i < j => u[i] # u[j] /\ FirstIndex(q, u[i]) < FirstIndex(q, u[j])

Injective(n) == {p \in [1..n -> 1..n] : \A i, j \in 1..n : p[i] = p[j] => i = j}

Reordered(q, p) == [i \in 1..Len(q) |-> q[p[i]]]

(* C7: every ordering of the raw_results list (each provider at most once)  *)
(* yields the unified record that the order main fetched them in yields.    *)
C7_OrderIndependent ==
    Consolidated =>
        \A p \in Injective(Len(raw_results)) :
            consolidate_results(cli.cnpj, Reordered(raw_results, p)).unificado
                = consolidado.unificado

(* two providers disagree on a scalar and main fetched the lower-trust first *)
C7_Witness ==
    /\ Consolidated
    /\ \E i, j \in 1..Len(raw_results) :
          /\ i < j
          /\ raw_results[i].fonte = "minha_receita"
          /\ raw_results[j].fonte = "serpro_consulta_cnpj"
          /\ RecordsOf("minha_receita") # <<>>
          /\ RecordsOf("serpro_consulta_cnpj") # <<>>
          /\ RecordsOf("minha_receita")[1].razao_social \notin Empty4
          /\ RecordsOf("serpro_consulta_cnpj")[1].razao_social \notin Empty4
          /\ RecordsOf("minha_receita")[1].razao_social
                # RecordsOf("serpro_consulta_cnpj")[1].razao_social
          /\ consolidado.unificado.razao_social
                = RecordsOf("serpro_consulta_cnpj")[1].razao_social

(* positions in the trust order of the providers with a non-empty value of *)
(* the field k of the substructure sub                                     *)
SubSuppliers(sub, k) ==
    {i \in 1..Len(ordem) : \E j \in 1..Len(RecordsOf(ordem[i])) :
                              RecordsOf(ordem[i])[j][sub][k] \notin Empty4}

FirstSupplied(sub, k) ==
    IF SubSuppliers(sub, k) = {}
    THEN consolidado.unificado[sub][k] \in Empty4
    ELSE consolidado.unificado[sub][k] = RecordsOf(ordem[MinOf(SubSuppliers(sub, k))])[1][sub][k]

(* C15: each field of endereco and, independently, each field of           *)
(* cnae_principal (codigo, descricao) of the unified record is the value of *)
(* the first provider in trust order that has a non-empty value for that    *)
(* field.                                                                   *)
C15_SubstructuresFieldByField ==
    Consolidated =>
       /\ \A ek \in EnderecoKeySet : FirstSupplied("endereco", ek)
       /\ \A ck \in {"codigo", "descricao"} : FirstSupplied("cnae_principal", ck)

(* a raw result whose fetch failed (ok is false), and one whose normaliser *)
(* raises (a body that is not a JSON object)                              *)
FetchFailed(rr) == ~rr.ok

NormalizerRaised(rr) == rr.ok /\ ~rr.is_dict

Failing(rr) == FetchFailed(rr) \/ NormalizerRaised(rr)

NotFailing(rr) == ~Failing(rr)

EntriesOf(fonte, erro) ==
    {i \in 1..Len(consolidado.normalizados) :
        /\ consolidado.normalizados[i].fonte = fonte
        /\ consolidado.normalizados[i].erro_normalizacao = erro}

(* C14: in consolidate_results a provider whose fetch failed or whose       *)
(* normaliser raised contributes no value; the raised normalisation is an   *)
(* entry of the normalised list; every other provider is normalised and     *)
(* merged; the unified record is the one obtained without the failing       *)
(* providers.                                                               *)
C14_FailingProviderIsAbsent ==
    Consolidated =>
       /\ consolidado.unificado =
             consolidate_results(cli.cnpj, SelectSeq(raw_results, NotFailing)).unificado
       /\ \A i \in 1..Len(raw_results) :
             LET rr == raw_results[i] IN
             /\ Failing(rr) => EntriesOf(rr.fonte, FALSE) = {}
             /\ NormalizerRaised(rr) => EntriesOf(rr.fonte, TRUE) # {}
             /\ FetchFailed(rr) => EntriesOf(rr.fonte, TRUE) = {}
             /\ (NotFailing(rr) /\ DOMAIN rr.data # {}) =>
                   \E n \in EntriesOf(rr.fonte, FALSE) :
                       <<consolidado.normalizados[n]>> = NormalizeOne(cli.cnpj, rr)

(* One provider answers an array, so its normaliser raises, while another *)
(* names the company: the raised normalisation is an entry of the list and *)
(* the unified record carries the other provider's name.                   *)
C14_Witness ==
    /\ Consolidated
    /\ \E i, j \in 1..Len(raw_results) :
          /\ NormalizerRaised(raw_results[i])
          /\ NotFailing(raw_results[j]) /\ DOMAIN raw_results[j].data # {}
    /\ Len(consolidado.normalizados) = 2
    /\ consolidado.unificado.razao_social = "X"

-----------------------------------------------------------------------------
(* Streamlit: one run of the "Consulta CNPJ" tab (lines 523-868).           *)

(* what the live BrasilAPI request of lines 156-172 ends in: a 200 with a   *)
(* JSON object, a 200 with an empty JSON value, a status other than 200     *)
(* (None), or an exception of s.get / r.json, which nothing catches         *)
BrasilOutcomes == {"dados", "vazio", "none", "raise"}

(* consultar_cnpj_receitaws_best_effort, lines 178-190: a payload or None *)
ReceitaOutcomes == {"dados", "none"}

BrasilValue(b) ==
    IF b = "dados" THEN "brasilapi_json" ELSE IF b = "vazio" THEN EmptyDict ELSE NoneV

ReceitaValue(r) == IF r = "dados" THEN "receitaws_json" ELSE NoneV

(* st.cache_data(ttl=...): an entry is served while younger than the ttl *)
Fresh(cache, key, ttl) == key \in DOMAIN cache /\ clock - cache[key].at < ttl

(* the lookup with ReceitaWS asked after every memo miss *)
RegistryLookupAsksReceitaAlways(cnpj_digits, b, r) ==
    LET hit == cnpj_digits \in DOMAIN cnpj_cache
        d0 == IF hit THEN cnpj_cache[cnpj_digits] ELSE NoneV
        ask_brasil == d0 = NoneV
        cached == Fresh(brasil_cache, cnpj_digits, TTL_BRASILAPI)
        live == ask_brasil /\ ~cached
        raised == live /\ b = "raise"
        d1 == IF ~ask_brasil THEN d0
              ELSE IF cached THEN brasil_cache[cnpj_digits].val ELSE BrasilValue(b)
        ask_receita == ~raised /\ ~hit
        d2 == IF ask_receita THEN ReceitaValue(r) ELSE d1
    IN [raised |-> raised,
        data |-> d2,
        origem |-> IF hit /\ d0 # NoneV THEN "cache_sessao"
                   ELSE IF d1 # NoneV THEN "brasilapi"
                   ELSE IF d2 # NoneV THEN "fallback_receitaws" ELSE "nenhuma",
        cache |-> IF live /\ ~raised
                  THEN DictSet(brasil_cache, cnpj_digits, [val |-> BrasilValue(b), at |-> clock])
                  ELSE brasil_cache,
        memo |-> IF ~raised /\ ~Falsy(d2) THEN DictSet(cnpj_cache, cnpj_digits, d2)
                 ELSE cnpj_cache,
        calls |-> (IF hit THEN <<"memo_read">> ELSE <<>>)
                  \o (IF ask_brasil THEN <<IF cached THEN "brasilapi_cache" ELSE "brasilapi">>
                      ELSE <<>>)
                  \o (IF ask_receita THEN <<"receitaws">> ELSE <<>>)]

(* the lookup with the memo written from BrasilAPI payloads only *)
RegistryLookupMemoOnlyBrasil(cnpj_digits, b, r) ==
    LET hit == cnpj_digits \in DOMAIN cnpj_cache
        d0 == IF hit THEN cnpj_cache[cnpj_digits] ELSE NoneV
        ask_brasil == d0 = NoneV
        cached == Fresh(brasil_cache, cnpj_digits, TTL_BRASILAPI)
        live == ask_brasil /\ ~cached
        raised == live /\ b = "raise"
        d1 == IF ~ask_brasil THEN d0
              ELSE IF cached THEN brasil_cache[cnpj_digits].val ELSE BrasilValue(b)
        ask_receita == ~raised /\ d1 = NoneV
        d2 == IF ask_receita THEN ReceitaValue(r) ELSE d1
    IN [raised |-> raised,
        data |-> d2,
        origem |-> IF hit /\ d0 # NoneV THEN "cache_sessao"
                   ELSE IF d1 # NoneV THEN "brasilapi"
                   ELSE IF d2 # NoneV THEN "fallback_receitaws" ELSE "nenhuma",
        cache |-> IF live /\ ~raised
                  THEN DictSet(brasil_cache, cnpj_digits, [val |-> BrasilValue(b), at |-> clock])
                  ELSE brasil_cache,
        memo |-> IF ~raised /\ ~Falsy(d2) /\ ~ask_receita
                 THEN DictSet(cnpj_cache, cnpj_digits, d2)
                 ELSE cnpj_cache,
        calls |-> (IF hit THEN <<"memo_read">> ELSE <<>>)
                  \o (IF ask_brasil THEN <<IF cached THEN "brasilapi_cache" ELSE "brasilapi">>
                      ELSE <<>>)
                  \o (IF ask_receita THEN <<"receitaws">> ELSE <<>>)]

(* lines 564-585: memo, then the cached BrasilAPI lookup, then ReceitaWS *)
RegistryLookup(cnpj_digits, b, r) ==
    LET hit == cnpj_digits \in DOMAIN cnpj_cache
        d0 == IF hit THEN cnpj_cache[cnpj_digits] ELSE NoneV
        ask_brasil == d0 = NoneV
        cached == Fresh(brasil_cache, cnpj_digits, TTL_BRASILAPI)
        live == ask_brasil /\ ~cached
        raised == live /\ b = "raise"
        d1 == IF ~ask_brasil THEN d0
              ELSE IF cached THEN brasil_cache[cnpj_digits].val ELSE BrasilValue(b)
        ask_receita == ~raised /\ d1 = NoneV
        d2 == IF ask_receita THEN ReceitaValue(r) ELSE d1
    IN [raised |-> raised,
        data |-> d2,
        origem |-> IF hit /\ d0 # NoneV THEN "cache_sessao"
                   ELSE IF d1 # NoneV THEN "brasilapi"
                   ELSE IF d2 # NoneV THEN "fallback_receitaws" ELSE "nenhuma",
        cache |-> IF live /\ ~raised
                  THEN DictSet(brasil_cache, cnpj_digits, [val |-> BrasilValue(b), at |-> clock])
                  ELSE brasil_cache,
        memo |-> IF ~raised /\ ~Falsy(d2) THEN DictSet(cnpj_cache, cnpj_digits, d2)
                 ELSE cnpj_cache,
        calls |-> (IF hit THEN <<"memo_read">> ELSE <<>>)
                  \o (IF ask_brasil THEN <<IF cached THEN "brasilapi_cache" ELSE "brasilapi">>
                      ELSE <<>>)
                  \o (IF ask_receita THEN <<"receitaws">> ELSE <<>>)]

(* the sections after the registry data: dump, Portal da Transparencia, PNCP *)
EnrichmentCalls ==
    <<"dump_read">> \o (IF pt_key THEN <<"portal_transparencia">> ELSE <<>>) \o <<"pncp">>

(* st.cache_data(ttl=60*30) of pt_get_raw, the pt_* endpoints and the pncp_* *)
(* functions: 30 min in ticks                                               *)
TTL_PORTAL == 3600

MAX_PAGES_DEFAULT == 2000   \* max_pages=2000

(* A call of a function decorated with st.cache_data that does not raise: a  *)
(* fresh entry is returned without running the body; otherwise the body runs *)
(* (live) and whatever it returns is stored under the key.                   *)
CachedCall(entries, key, ttl, live) ==
    IF Fresh(entries, key, ttl)
    THEN [val |-> entries[key].val, entries |-> entries, live |-> FALSE]
    ELSE [val |-> live,
          entries |-> DictSet(entries, key, [val |-> live, at |-> clock]),
          live |-> TRUE]

(* What the Portal answers to the successive requests of one lookup; once the *)
(* listed answers are used up it answers an empty page.                       *)
PtFail == [kind |-> "fail", n |-> 0, meta |-> "status"]

PtList(n) == [kind |-> "list", n |-> n, meta |-> "headers"]

PtObj == [kind |-> "obj", n |-> 0, meta |-> "headers"]

PortalAnswers ==
    {<<PtFail>>, <<PtList(0)>>, <<PtList(1), PtFail>>, <<PtList(1), PtList(0)>>, <<PtObj>>}

(* _pt_fetch_all run to its return on the answers resps *)
RECURSIVE PagerRun(_, _)
PagerRun(pg, resps) ==
    IF pg.pc # "running" THEN pg
    ELSE IF resps = <<>> THEN PagerRun(PagerIteration(pg, PtList(0)), <<>>)
    ELSE PagerRun(PagerIteration(pg, Head(resps)), Tail(resps))

(* base_params of the five list endpoints (lines 271-291) *)
CallerParams == [x \in {"filtro", "tamanho"} |-> IF x = "filtro" THEN 0 ELSE TAMANHO_CALLERS]

(* pt_contratos_cpf_cnpj, pt_sancoes, pt_notas_fiscais, pt_renuncias_valor, *)
(* pt_despesas: the (items, meta) of _pt_fetch_all                           *)
pt_fetch_all(resps) == PagerRun(PagerBegin(CallerParams, START_PAGE, MAX_PAGES_DEFAULT), resps).ret

(* pt_pessoa_juridica: the (data, meta) of one pt_get_raw call *)
pt_get_raw(resp) ==
    IF resp.kind = "fail" THEN [none |-> TRUE, items |-> <<>>, meta |-> resp.meta]
    ELSE IF resp.kind = "list" THEN [none |-> FALSE, items |-> PageItems(1, resp.n), meta |-> resp.meta]
    ELSE [none |-> FALSE, items |-> <<ObjItem(1)>>, meta |-> resp.meta]

(* pncp_get (lines 296-306): the JSON body of a 200, None otherwise *)
PncpOutcomes == {"dados", "vazio", "none"}

PncpItem == [req |-> 1, idx |-> 1]

pncp_get(o) ==
    [none |-> o = "none", items |-> IF o = "dados" THEN <<PncpItem>> ELSE <<>>, meta |-> EmptyStr]

(* bool(x) of a fetched value *)
Truthy(ret) == ~ret.none /\ Len(ret.items) > 0

(* the block of the harvester's dump for a section, one row; a ready CSV *)
DumpItem == [req |-> 0, idx |-> 1]

CsvItem == [req |-> 0, idx |-> 2]

(* One Portal da Transparencia expander (lines 636-827) on the value ret of *)
(* its pt_* call: `if not x and dump:` takes the dump's block, a falsy x     *)
(* falls to the ready CSV (profile, contracts) or to the "nothing found"     *)
(* message; "despesas" (lines 754-790) reads the CSV instead of the dump and *)
(* shows its message only when dep is None.                                  *)
SectionView(f, ret) ==
    LET api_ok == Truthy(ret)
        use_dump == ~Truthy(ret) /\ disk.dump
        badge(dump_ok) == IF api_ok THEN "api" ELSE IF dump_ok THEN "dump" ELSE "nenhuma"
    IN
    IF f = "despesas"
    THEN LET csv_shown == use_dump /\ disk.csv
             dep_none == ret.none \/ csv_shown
         IN [shown |-> IF csv_shown THEN "csv"
                       ELSE IF Truthy(ret) THEN "tabela"
                       ELSE IF dep_none THEN "info" ELSE "nada",
             rows |-> IF csv_shown THEN <<CsvItem>> ELSE ret.items,
             badge |-> badge(csv_shown), caption |-> FALSE]
    ELSE IF use_dump
    THEN [shown |-> "tabela", rows |-> <<DumpItem>>, badge |-> badge(TRUE), caption |-> FALSE]
    ELSE IF Truthy(ret)
    THEN [shown |-> "tabela", rows |-> ret.items, badge |-> badge(FALSE), caption |-> FALSE]
    ELSE IF f \in {"pessoa_juridica", "contratos"} /\ disk.csv
    THEN [shown |-> "csv", rows |-> <<CsvItem>>, badge |-> badge(TRUE), caption |-> FALSE]
    ELSE [shown |-> "info", rows |-> <<>>, badge |-> badge(FALSE), caption |-> FALSE]

(* The PNCP expander (lines 829-857) for one of its two lists: the count *)
(* caption when the value is not None, the table when it is truthy, the  *)
(* "Nada encontrado" message when neither list is truthy.                *)
PncpView(ret, other) ==
    [shown |-> IF Truthy(ret) THEN "tabela" ELSE IF Truthy(other) THEN "nada" ELSE "info",
     rows |-> ret.items, badge |-> "nenhuma", caption |-> ~ret.none]

SectionOrder ==
    <<"pessoa_juridica", "sancoes", "notas_fiscais", "renuncias", "despesas", "contratos",
      "pncp_avisos", "pncp_contratos">>

(* what the body of the cached function returns when it runs, the Portal *)
(* answering e.pt and the PNCP e.pncp                                     *)
LiveValue(f, e) ==
    IF f \in PncpSections THEN pncp_get(e.pncp)
    ELSE IF f = "pessoa_juridica" THEN pt_get_raw(Head(e.pt))
    ELSE pt_fetch_all(e.pt)

(* lines 632-857: every section calls its cached function (the Portal ones *)
(* only if _pt_available()) and renders the value                          *)
Enrichment(cnpj_digits, e) ==
    LET called == [f \in CachedFunctions |-> f \in PncpSections \/ pt_key]
        c == [f \in CachedFunctions |->
                CachedCall(st_cache[f], cnpj_digits, TTL_PORTAL, LiveValue(f, e))]
        ret == [f \in CachedFunctions |-> IF called[f] THEN c[f].val ELSE NotFetched]
        live(f) == called[f] /\ c[f].live
        fetched == SelectSeq(SectionOrder, live)
        view == [f \in CachedFunctions |->
                    IF f \in PtSections THEN SectionView(f, ret[f])
                    ELSE PncpView(ret[f], ret[CHOOSE g \in PncpSections : g # f])]
    IN [cache |-> [f \in CachedFunctions |-> IF called[f] THEN c[f].entries ELSE st_cache[f]],
        http |-> [i \in 1..Len(fetched) |->
                     [prov |-> fetched[i], cnpj |-> cnpj_digits, at |-> clock,
                      raised |-> FALSE]],
        secoes |-> [f \in CachedFunctions |->
                     [shown |-> view[f].shown, rows |-> view[f].rows, badge |-> view[f].badge,
                      caption |-> view[f].caption, ret |-> ret[f], live |-> live(f)]]]

(* the live BrasilAPI fetch of a run, if it made one, and whether s.get *)
(* raised (retries exhausted, timeout, connection error)                *)
BrasilFetch(cnpj_digits, reg) ==
    IF \E i \in 1..Len(reg.calls) : reg.calls[i] = "brasilapi"
    THEN <<[prov |-> "brasilapi", cnpj |-> cnpj_digits, at |-> clock, raised |-> reg.raised]>>
    ELSE <<>>

(* What the providers answer during one run: b BrasilAPI, r ReceitaWS, pt the *)
(* Portal da Transparencia, pncp the PNCP.  One provider at a time departs    *)
(* from its plain answer (data, data, an empty list, an empty body).          *)
RegistryAnswers ==
    {[b |-> b, r |-> r, pt |-> <<PtList(0)>>, pncp |-> "vazio"] :
        b \in BrasilOutcomes, r \in ReceitaOutcomes}

Answers ==
    RegistryAnswers
    \cup {[b |-> "dados", r |-> "dados", pt |-> a, pncp |-> "vazio"] : a \in PortalAnswers}
    \cup {[b |-> "dados", r |-> "dados", pt |-> <<PtList(0)>>, pncp |-> o] : o \in PncpOutcomes}

(* lines 554-560: what rejects the input; "ok" lets the lookup run *)
Validation(cnpj_in, digits) ==
    IF str_strip(cnpj_in) = <<>> THEN "informe"
    ELSE IF Len(digits) # CNPJ_LEN THEN "invalido" ELSE "ok"

(* the handler with the input validated before the throttle is asked *)
RunConsultarValidatesFirst(cnpj_in, a) ==
    \E cnpj_digits \in {_normalize_cnpj(cnpj_in)} :
    LET v == Validation(cnpj_in, cnpj_digits)
        t == IF v = "ok" THEN _throttle_ok(clock, last_cnpj_click_ts, MIN_SECONDS)
             ELSE [ok |-> TRUE, wait |-> 0, ts |-> last_cnpj_click_ts]
    IN
    /\ last_cnpj_click_ts' = t.ts
    /\ thr' = [called |-> TRUE, now |-> clock, min |-> MIN_SECONDS,
               before |-> last_cnpj_click_ts, ok |-> t.ok, wait |-> t.wait,
               sleeps_before |-> sleeps]
    /\ permitted' = IF t.ok THEN Append(permitted, [t |-> clock, min |-> MIN_SECONDS])
                    ELSE permitted
    /\ IF ~t.ok
       THEN /\ ui' = [UiNone EXCEPT !.msg = "aguarde", !.input = cnpj_in, !.wait = t.wait]
            /\ calls' = <<>>
            /\ secoes' = NoSections
            /\ UNCHANGED <<cnpj_cache, brasil_cache, st_cache, http>>
       ELSE IF v # "ok"
       THEN /\ ui' = [UiNone EXCEPT !.msg = v, !.input = cnpj_in]
            /\ calls' = <<>>
            /\ secoes' = NoSections
            /\ UNCHANGED <<cnpj_cache, brasil_cache, st_cache, http>>
       ELSE \E reg \in {RegistryLookup(cnpj_digits, a.b, a.r)} :
            IF reg.raised
            THEN /\ ui' = [UiNone EXCEPT !.msg = "excecao", !.input = cnpj_in,
                                         !.cnpj = cnpj_digits]
                 /\ calls' = reg.calls
                 /\ secoes' = NoSections
                 /\ http' = http \o BrasilFetch(cnpj_digits, reg)
                 /\ UNCHANGED <<cnpj_cache, brasil_cache, st_cache>>
            ELSE /\ ui' = [msg |-> IF Falsy(reg.data) THEN "sem_dados" ELSE "dados",
                           input |-> cnpj_in, cnpj |-> cnpj_digits, wait |-> 0,
                           origem |-> reg.origem, data |-> reg.data]
                 /\ calls' = reg.calls \o EnrichmentCalls
                 /\ cnpj_cache' = reg.memo
                 /\ brasil_cache' = reg.cache
                 /\ \E enr \in {Enrichment(cnpj_digits, a)} :
                       /\ st_cache' = enr.cache
                       /\ http' = http \o BrasilFetch(cnpj_digits, reg) \o enr.http
                       /\ secoes' = enr.secoes

(* `if consultar:` of lines 547-868 on the input cnpj_in *)
RunConsultar(cnpj_in, a) ==
    \E t \in {_throttle_ok(clock, last_cnpj_click_ts, MIN_SECONDS)},
       cnpj_digits \in {_normalize_cnpj(cnpj_in)} :
    LET v == Validation(cnpj_in, cnpj_digits) IN
    /\ last_cnpj_click_ts' = t.ts
    /\ thr' = [called |-> TRUE, now |-> clock, min |-> MIN_SECONDS,
               before |-> last_cnpj_click_ts, ok |-> t.ok, wait |-> t.wait,
               sleeps_before |-> sleeps]
    /\ permitted' = IF t.ok THEN Append(permitted, [t |-> clock, min |-> MIN_SECONDS])
                    ELSE permitted
    /\ IF ~t.ok
       THEN /\ ui' = [UiNone EXCEPT !.msg = "aguarde", !.input = cnpj_in, !.wait = t.wait]
            /\ calls' = <<>>
            /\ secoes' = NoSections
            /\ UNCHANGED <<cnpj_cache, brasil_cache, st_cache, http>>
       ELSE IF v # "ok"
       THEN /\ ui' = [UiNone EXCEPT !.msg = v, !.input = cnpj_in]
            /\ calls' = <<>>
            /\ secoes' = NoSections
            /\ UNCHANGED <<cnpj_cache, brasil_cache, st_cache, http>>
       ELSE \E reg \in {RegistryLookup(cnpj_digits, a.b, a.r)} :
            IF reg.raised
            THEN /\ ui' = [UiNone EXCEPT !.msg = "excecao", !.input = cnpj_in,
                                         !.cnpj = cnpj_digits]
                 /\ calls' = reg.calls
                 /\ secoes' = NoSections
                 /\ http' = http \o BrasilFetch(cnpj_digits, reg)
                 /\ UNCHANGED <<cnpj_cache, brasil_cache, st_cache>>
            ELSE /\ ui' = [msg |-> IF Falsy(reg.data) THEN "sem_dados" ELSE "dados",
                           input |-> cnpj_in, cnpj |-> cnpj_digits, wait |-> 0,
                           origem |-> reg.origem, data |-> reg.data]
                 /\ calls' = reg.calls \o EnrichmentCalls
                 /\ cnpj_cache' = reg.memo
                 /\ brasil_cache' = reg.cache
                 /\ \E enr \in {Enrichment(cnpj_digits, a)} :
                       /\ st_cache' = enr.cache
                       /\ http' = http \o BrasilFetch(cnpj_digits, reg) \o enr.http
                       /\ secoes' = enr.secoes

(* "Consultar CNPJ" pressed with txt in the text input *)
Consultar(answers) ==
    /\ proc = "streamlit"
    /\ \E a \in answers : RunConsultar(txt, a)

(* "Usar CNPJ de exemplo" pressed: lines 539-545 *)
Testar(answers) ==
    /\ proc = "streamlit"
    /\ \E a \in answers : RunConsultar(ExampleCnpjDigits, a)

(* the button with the memo left as it is *)
LimparCacheKeepsMemo ==
    /\ proc = "streamlit"
    /\ cnpj_cache' = cnpj_cache
    /\ ui' = [UiNone EXCEPT !.msg = "cache_limpo"]
    /\ calls' = <<>>
    /\ secoes' = NoSections
    /\ UNCHANGED <<brasil_cache, throttleVars, st_cache, http>>

(* "Limpar cache" pressed: lines 535-537 *)
LimparCache ==
    /\ proc = "streamlit"
    /\ cnpj_cache' = <<>>
    /\ ui' = [UiNone EXCEPT !.msg = "cache_limpo"]
    /\ calls' = <<>>
    /\ secoes' = NoSections
    /\ UNCHANGED <<brasil_cache, throttleVars, st_cache, http>>

(* the user waits min_seconds before the next click *)
Wait ==
    /\ proc = "streamlit"
    /\ clock + MIN_SECONDS <= MaxTime
    /\ clock' = clock + MIN_SECONDS

-----------------------------------------------------------------------------
(* Both entry points on the same inputs: the tab of the app, main of the CLI *)

EntryChars == {"0", ".", " ", "sup2"}

(* an input is made of runs of one character, one or CNPJ_LEN - 1 long *)
RunLens == {1, CNPJ_LEN - 1}

EntryRuns == {Repeat(c, n) : c \in EntryChars, n \in RunLens}

RECURSIVE RunsUpTo(_)
RunsUpTo(n) ==
    IF n = 0 THEN {<<>>}
    ELSE RunsUpTo(n - 1) \cup {s \o r : s \in RunsUpTo(n - 1), r \in EntryRuns}

EntryInputs == RunsUpTo(MaxRuns) \cup {ExampleCnpjFormatted}

InitEntry ==
    /\ InitBase
    /\ fetch = FetchIdle
    /\ retry = RetryIdle
    /\ disk = NoDisk
    /\ proc \in {"streamlit", "cli"}
    /\ txt \in EntryInputs
    /\ pt_key = TRUE
    /\ provedores = [f \in RequiredProviders \cup TokenProviders |-> EmptyAnswer]

NextEntry ==
    \/ Consultar(RegistryAnswers) /\ UNCHANGED <<clock, sleeps, cliVars, normVars, pager, consVars, proc, pt_key, worldVars>>
    \/ Testar(RegistryAnswers) /\ UNCHANGED <<clock, sleeps, cliVars, normVars, pager, consVars, proc, pt_key, worldVars>>
    \/ LimparCache /\ UNCHANGED <<clock, sleeps, cliVars, normVars, pager, consVars, proc, pt_key, worldVars>>
    \/ Wait /\ UNCHANGED <<sessionVars, throttleVars, cliVars, normVars, pagerVars, consVars, proc, pt_key, portalVars, worldVars>>
    \/ Main /\ UNCHANGED <<clock, sessionVars, throttleVars, normVars, pagerVars, proc, pt_key, portalVars, worldVars>>

SpecEntry == InitEntry /\ [][NextEntry]_vars

(* the decimal digits of the input, which is what stripping every non-digit *)
(* character leaves                                                          *)
DigitsOf(s) == SelectSeq(s, UnicodeDecimal)

(* the last run of the tab looked the identifier up *)
LookedUp == ui.msg \in {"dados", "sem_dados", "excecao"}

(* the last run of the tab was a click the throttle let through *)
ClickRan == LookedUp \/ ui.msg \in {"informe", "invalido"}

(* C1: in both entry points an input whose digits-only normalisation does   *)
(* not have exactly 14 digits ends in a validation failure, with no fetch,  *)
(* cache read or consolidation, and an identifier that is looked up is the  *)
(* input's digits, neither truncated nor padded.                            *)
C1_InvalidInputRejected ==
    /\ (proc = "cli" /\ cli.pc = "exit") =>
          IF Len(DigitsOf(txt)) # CNPJ_LEN
          THEN cli.code = 2 /\ raw_results = <<>> /\ consolidado = NoneV
          ELSE cli.code = 0 /\ cli.cnpj = DigitsOf(txt)
    /\ (proc = "streamlit" /\ ClickRan) =>
          IF Len(DigitsOf(ui.input)) # CNPJ_LEN
          THEN ui.msg \in {"informe", "invalido"} /\ calls = <<>>
          ELSE LookedUp /\ ui.cnpj = DigitsOf(ui.input)

-----------------------------------------------------------------------------
(* The CNPJ tab over the lifetime of the caches: lookups of two identifiers, *)
(* with and without the Portal key and the harvester's files, the clock      *)
(* moving by the throttle interval and by the cache lifetimes.               *)

(* "00000000000000" *)
OtherCnpjDigits == Repeat("0", CNPJ_LEN)

DiskStates == [dump : BOOLEAN, csv : BOOLEAN]

(* the user comes back when the Portal entries are about to expire, or have *)
WaitTtl ==
    /\ proc = "streamlit"
    /\ \E d \in {TTL_PORTAL - MIN_SECONDS, TTL_PORTAL} :
          /\ clock + d <= StartTime + MaxWindows * TTL_PORTAL
          /\ clock' = clock + d

InitLookup ==
    /\ InitBase
    /\ fetch = FetchIdle
    /\ retry = RetryIdle
    /\ disk \in DiskStates
    /\ proc = "streamlit"
    /\ txt = OtherCnpjDigits
    /\ pt_key \in BOOLEAN
    /\ provedores = <<>>

NextLookup ==
    \/ Len(permitted) < MaxClicks /\ Consultar(Answers) /\ UNCHANGED <<clock, sleeps, cliVars, normVars, pager, consVars, proc, pt_key, worldVars>>
    \/ Len(permitted) < MaxClicks /\ Testar(Answers) /\ UNCHANGED <<clock, sleeps, cliVars, normVars, pager, consVars, proc, pt_key, worldVars>>
    \/ LimparCache /\ UNCHANGED <<clock, sleeps, cliVars, normVars, pager, consVars, proc, pt_key, worldVars>>
    \/ WaitTtl /\ UNCHANGED <<sessionVars, throttleVars, cliVars, normVars, pagerVars, consVars, proc, pt_key, portalVars, worldVars>>

SpecLookup == InitLookup /\ [][NextLookup]_vars

(* the lifetime of the cache entries of a provider *)
TtlOf(prov) == IF prov = "brasilapi" THEN TTL_BRASILAPI ELSE TTL_PORTAL

(* C12: of the lookups of one (provider, identifier) within the TTL window *)
(* (1 h BrasilAPI, 30 min Portal / PNCP) exactly one is fetched live: two   *)
(* live fetches of the same provider and identifier are at least one TTL   *)
(* apart.                                                                   *)
C12_OneLiveFetchPerTtlWindow ==
    \A i, j \in 1..Len(http) :
        (i < j /\ http[i].prov = http[j].prov /\ http[i].cnpj = http[j].cnpj)
        => http[j].at - http[i].at >= TtlOf(http[i].prov)

(* the run whose output is on the page fetched BrasilAPI live and s.get raised *)
BrasilExhausted ==
    /\ LookedUp
    /\ \E i \in 1..Len(http) :
          /\ http[i].prov = "brasilapi" /\ http[i].raised
          /\ http[i].at = clock /\ http[i].cnpj = ui.cnpj

Member(x, seq) == \E i \in 1..Len(seq) : seq[i] = x

(* C13: when the BrasilAPI request exhausts its retries, times out or fails *)
(* at connection level, the lookup goes on: ReceitaWS is asked, the Portal  *)
(* da Transparencia and PNCP sections are rendered, and no exception ends   *)
(* the run.                                                                 *)
C13_BrasilFailureIsNotFatal ==
    BrasilExhausted
    => /\ ui.msg # "excecao"
       /\ Member("receitaws", calls)
       /\ Member("pncp", calls)
       /\ \A f \in CachedFunctions : secoes[f].shown # "nothing"

(* the section shows rows read from the harvester's files *)
ShowsLocalData(f) == secoes[f].rows = <<DumpItem>> \/ secoes[f].shown = "csv"

(* C16: a Portal section shows data of the local dump only when its live   *)
(* fetch failed or was unavailable (no key): a fetch that succeeded, with  *)
(* an empty list included, is never replaced by dump data.                 *)
C16_DumpOnlyWhenFetchFailed ==
    \A f \in PtSections : ShowsLocalData(f) => secoes[f].ret.none

(* C18: a TTL cache entry is created only by a successful fetch: no entry *)
(* holds a failure (None of BrasilAPI or PNCP, (None, meta) of the Portal), *)
(* so that the lookup after a failed fetch fetches live again.              *)
C18_CacheHoldsOnlySuccess ==
    /\ \A key \in DOMAIN brasil_cache : brasil_cache[key].val # NoneV
    /\ \A f \in CachedFunctions : \A key \in DOMAIN st_cache[f] : ~st_cache[f][key].val.none

(* what the user sees of a section: message or table, its rows, the origin *)
(* badge, the count caption                                                 *)
Visible(sec) == <<sec.shown, sec.rows, sec.badge, sec.caption>>

(* a pagination that ended on an empty page without having found an item *)
EmptySuccess == [none |-> FALSE, items |-> <<>>, meta |-> EmptyDict]

(* C20: in every paged Portal section, what the user sees after an aborted *)
(* pagination (a page fetch failed, the value is None) differs from what   *)
(* the same section shows for a pagination that succeeded with zero items. *)
C20_AbortDistinctFromEmpty ==
    \A f \in PagedSections :
        (pt_key /\ secoes[f].shown # "nothing" /\ secoes[f].ret.none) =>
            Visible(secoes[f]) # Visible(SectionView(f, EmptySuccess))

(* The registry part of the tab on its own: the lookups differ in what   *)
(* BrasilAPI and ReceitaWS answer, the Portal and the PNCP answer plainly. *)
(* The text input holds an identifier, nothing, or a single digit.         *)
RegistryInputs == {OtherCnpjDigits, <<>>, <<"0">>}

InitRegistry ==
    /\ InitBase
    /\ fetch = FetchIdle
    /\ retry = RetryIdle
    /\ disk \in {NoDisk, [dump |-> TRUE, csv |-> FALSE]}
    /\ txt \in RegistryInputs
    /\ proc = "streamlit"
    /\ pt_key = TRUE
    /\ provedores = <<>>

NextRegistry ==
    \/ Len(permitted) < MaxClicks /\ Consultar(RegistryAnswers) /\ UNCHANGED <<clock, sleeps, cliVars, normVars, pager, consVars, proc, pt_key, worldVars>>
    \/ Len(permitted) < MaxClicks /\ Testar(RegistryAnswers) /\ UNCHANGED <<clock, sleeps, cliVars, normVars, pager, consVars, proc, pt_key, worldVars>>
    \/ LimparCache /\ UNCHANGED <<clock, sleeps, cliVars, normVars, pager, consVars, proc, pt_key, worldVars>>
    \/ WaitTtl /\ UNCHANGED <<sessionVars, throttleVars, cliVars, normVars, pagerVars, consVars, proc, pt_key, portalVars, worldVars>>

SpecRegistry == InitRegistry /\ [][NextRegistry]_vars

(* the last run made the call c *)
Ran(c) == Member(c, calls)

(* C23: a lookup that ran to its end consulted the session memo first and,  *)
(* on a hit, neither BrasilAPI nor ReceitaWS; on a miss the TTL-cached      *)
(* BrasilAPI lookup; ReceitaWS only after a miss on which BrasilAPI gave    *)
(* None, and after it.  The origin shown is cache_sessao on a hit, brasilapi *)
(* when BrasilAPI returned a value, fallback_receitaws when ReceitaWS did,  *)
(* nenhuma otherwise.  A lookup ended by an exception asked no ReceitaWS.   *)
C23_LookupOrder ==
    LET hit == Ran("memo_read")
        brasil == Ran("brasilapi") \/ Ran("brasilapi_cache")
        receita == Ran("receitaws")
    IN
    /\ ui.msg = "excecao" => ~hit /\ ~receita
    /\ ui.msg \in {"dados", "sem_dados"} =>
          /\ hit => ~brasil /\ ~receita /\ calls[1] = "memo_read"
          /\ ~hit => brasil /\ calls[1] \in {"brasilapi", "brasilapi_cache"}
          /\ receita => /\ ~hit
                        /\ brasil_cache[ui.cnpj].val = NoneV
                        /\ calls[2] = "receitaws"
          /\ ui.origem = IF hit THEN "cache_sessao"
                         ELSE IF brasil_cache[ui.cnpj].val # NoneV THEN "brasilapi"
                         ELSE IF ui.data # NoneV THEN "fallback_receitaws"
                         ELSE "nenhuma"

(* a second lookup of an identifier served from the memo, after a first one *)
(* that BrasilAPI failed and ReceitaWS answered                             *)
C23_Witness ==
    /\ ui.msg = "dados" /\ ui.origem = "cache_sessao"
    /\ Ran("memo_read")
    /\ ui.data = "receitaws_json"
    /\ ui.cnpj \in DOMAIN brasil_cache /\ brasil_cache[ui.cnpj].val = NoneV

(* the session memo holds v under the identifier of the last lookup *)
MemoHolds(v) == ui.cnpj \in DOMAIN cnpj_cache /\ cnpj_cache[ui.cnpj] = v

(* the value the live BrasilAPI fetch of the last lookup returned *)
BrasilLive == brasil_cache[ui.cnpj].val

(* C24 as stated: after a lookup whose live BrasilAPI or ReceitaWS fetch    *)
(* returned a payload (anything but None), the session memo holds that      *)
(* payload under the normalized identifier; the dump on disk is not written *)
C24_MemoHoldsLivePayload ==
    /\ [](ui.msg \in {"dados", "sem_dados"} =>
            /\ (Ran("brasilapi") /\ BrasilLive # NoneV) => MemoHolds(BrasilLive)
            /\ (Ran("receitaws") /\ ui.data # NoneV) => MemoHolds(ui.data))
    /\ [][disk' = disk]_vars

(* C24 amended: the same for a payload that is not empty *)
C24_MemoHoldsNonEmptyLivePayload ==
    /\ [](ui.msg \in {"dados", "sem_dados"} =>
            /\ (Ran("brasilapi") /\ ~Falsy(BrasilLive)) => MemoHolds(BrasilLive)
            /\ (Ran("receitaws") /\ ~Falsy(ui.data)) => MemoHolds(ui.data))
    /\ [][disk' = disk]_vars

(* a lookup with a dump on disk whose live ReceitaWS fetch gave the payload *)
C24_Witness ==
    /\ ui.msg = "dados" /\ Ran("brasilapi") /\ Ran("receitaws") /\ Ran("dump_read")
    /\ disk.dump
    /\ MemoHolds("receitaws_json")

(* C25: an entry of the session memo keeps its value through every step     *)
(* (lookups, passage of time) except 'Limpar cache', which empties the whole *)
(* memo; the lookup that follows 'Limpar cache' is not served from the memo. *)
C25_MemoKeptUntilCleared ==
    /\ [][\A k \in DOMAIN cnpj_cache :
             \/ k \in DOMAIN cnpj_cache' /\ cnpj_cache'[k] = cnpj_cache[k]
             \/ ui'.msg = "cache_limpo" /\ cnpj_cache' = <<>>]_vars
    /\ [](ui.msg = "cache_limpo" => cnpj_cache = <<>>)
    /\ [][(ui.msg = "cache_limpo" /\ ui'.msg \in {"dados", "sem_dados"})
             => ui'.origem # "cache_sessao" /\ ~Member("memo_read", calls')]_vars

(* the second lookup of an identifier whose BrasilAPI payload is still in   *)
(* the TTL cache but no longer in the memo: the memo was cleared in between *)
C25_Witness ==
    /\ Len(permitted) = 2
    /\ ui.msg = "dados" /\ ui.origem = "brasilapi"
    /\ Ran("brasilapi_cache")
    /\ MemoHolds("brasilapi_json")

(* C28: a click the throttle rejects shows the time left to wait and does   *)
(* nothing else: no provider is fetched, no cache and no dump is read, the  *)
(* session memo, the TTL caches and the throttle timestamp stay as they are *)
C28_RejectedClickIsPureBackoff ==
    [][(ui'.msg = "aguarde" /\ clock' = clock) =>
          /\ ui'.wait > 0
          /\ ui'.wait = MIN_SECONDS - (clock - last_cnpj_click_ts)
          /\ calls' = <<>>
          /\ secoes' = NoSections
          /\ UNCHANGED <<cnpj_cache, brasil_cache, st_cache, http, disk,
                         last_cnpj_click_ts>>]_vars

(* a click rejected while the memo and the caches hold an earlier lookup *)
C28_Witness ==
    /\ ui.msg = "aguarde" /\ ui.wait = MIN_SECONDS
    /\ ~thr.ok /\ thr.now = last_cnpj_click_ts
    /\ cnpj_cache # <<>> /\ brasil_cache # <<>> /\ Len(http) > 0
    /\ disk.dump

(* C29: the warning that no registry data is available is shown exactly     *)
(* when the memo missed and both BrasilAPI and ReceitaWS were asked and     *)
(* gave no data.                                                            *)
C29_WarningIffAllSourcesFailed ==
    LookedUp =>
        (ui.msg = "sem_dados" <=>
            /\ ~Ran("memo_read")
            /\ Ran("brasilapi") \/ Ran("brasilapi_cache")
            /\ Ran("receitaws")
            /\ Falsy(ui.data))

(* the identifier of the input is not one the tab looks up *)
InvalidInput(cnpj_in) == Validation(cnpj_in, _normalize_cnpj(cnpj_in)) # "ok"

(* C30: the throttle runs before the validation of the input.  A click the  *)
(* throttle permits sets the last-call time to now even when the input is   *)
(* then rejected as empty or not 14 digits, and the next click made less    *)
(* than min_seconds later is rejected by the throttle, whatever its input.  *)
C30_ThrottleBeforeValidation ==
    /\ [][(ui'.msg \in {"informe", "invalido"} /\ clock' = clock)
             => last_cnpj_click_ts' = clock]_vars
    /\ [][(/\ ui.msg \in {"informe", "invalido"}
           /\ clock' = clock /\ ui'.msg # "cache_limpo"
           /\ clock - last_cnpj_click_ts < MIN_SECONDS)
             => ui'.msg = "aguarde" /\ calls' = <<>>]_vars

(* the example identifier rejected by the throttle right after a click on *)
(* an invalid input, no lookup having run yet                              *)
C30_Witness ==
    /\ proc = "streamlit" /\ InvalidInput(txt)
    /\ ui.msg = "aguarde" /\ ui.input = ExampleCnpjDigits
    /\ last_cnpj_click_ts = clock
    /\ Len(permitted) = 1
    /\ cnpj_cache = <<>> /\ brasil_cache = <<>> /\ http = <<>>

-----------------------------------------------------------------------------
(* Several browser sessions on one server: every session runs the script on *)
(* its own st.session_state (lines 57-67), all share the clock and the      *)
(* st.cache_data stores.                                                    *)

(* the st.session_state of the session whose script is running *)
RunningSessionState ==
    [last_cnpj_click_ts |-> last_cnpj_click_ts, cnpj_cache |-> cnpj_cache]

(* the next click comes from the browser session s *)
SwitchSession(s) ==
    /\ proc = "streamlit"
    /\ s # sessions.sid
    /\ sessions' = [sid |-> s,
                    store |-> [sessions.store EXCEPT ![sessions.sid] = RunningSessionState]]
    /\ last_cnpj_click_ts' = sessions.store[s].last_cnpj_click_ts
    /\ cnpj_cache' = sessions.store[s].cnpj_cache

InitSessions ==
    /\ InitBase
    /\ fetch = FetchIdle
    /\ retry = RetryIdle
    /\ disk = NoDisk
    /\ proc = "streamlit"
    /\ txt = ExampleCnpjFormatted
    /\ pt_key = TRUE
    /\ provedores = <<>>

NextSessions ==
    \/ \E s \in SessionIds : SwitchSession(s) /\ UNCHANGED <<clock, brasil_cache, ui, calls, sleeps, thr, permitted, cliVars, normVars, pager, consVars, proc, pt_key, portalVars, disk, fetch, retry>>
    \/ Len(permitted) < MaxClicks /\ Consultar(RegistryAnswers) /\ UNCHANGED <<clock, sleeps, cliVars, normVars, pager, consVars, proc, pt_key, worldVars>>
    \/ Len(permitted) < MaxClicks /\ Testar(RegistryAnswers) /\ UNCHANGED <<clock, sleeps, cliVars, normVars, pager, consVars, proc, pt_key, worldVars>>
    \/ LimparCache /\ UNCHANGED <<clock, sleeps, cliVars, normVars, pager, consVars, proc, pt_key, worldVars>>
    \/ Tick /\ UNCHANGED <<sessionVars, throttleVars, cliVars, normVars, pagerVars, consVars, proc, pt_key, portalVars, worldVars>>

SpecSessions == InitSessions /\ [][NextSessions]_vars

(* C17: the throttle is one counter shared by the interactive lookups of all *)
(* sessions and users: any two lookups it permits are at least min_seconds   *)
(* apart, clicks of different sessions at the same moment included.          *)
C17_PermittedLookupsApart ==
    \A i, j \in 1..Len(permitted) :
        i < j => permitted[j].t - permitted[i].t >= MIN_SECONDS

(***************************************************************************)
(* One fetcher call against one response.  A response either never comes   *)
(* (requests raises a RequestException) or has a status, a Content-Type    *)
(* that declares JSON or not, and a body that is a JSON object, a JSON     *)
(* list, or text that no JSON parser accepts.                              *)
(***************************************************************************)
CliFetchers == {"minha_receita", "receitaws", "cnpj_ws", "serpro_consulta_cnpj"}
GuardedFetchers == {"receitaws_best_effort", "pt_get_raw", "pncp_get"}
Fetchers == CliFetchers \cup {"brasilapi"} \cup GuardedFetchers

Statuses == {200, 404, 500}
STATUS_FORCELIST == {429, 500, 502, 503, 504}
Bodies == {"objeto", "lista", "texto"}
Responses == [answered : BOOLEAN, status : Statuses, declared : BOOLEAN, body : Bodies]

(* what the caller gets: an exception, or a value with its ok flag and payload *)
Raised == [raised |-> TRUE, ok |-> FALSE, payload |-> "nada"]
Returned(ok, payload) == [raised |-> FALSE, ok |-> ok, payload |-> payload]

(* r.json() succeeds *)
Parses(resp) == resp.body # "texto"
(* r.ok *)
r_ok(resp) == resp.status < 400

(* http_get: the outer handler catches RequestException only.  The error   *)
(* r.json() raises on a declared-JSON body is a RequestException in the    *)
(* requests releases that define requests.exceptions.JSONDecodeError and a *)
(* plain ValueError in the older ones; no release is pinned, so both are   *)
(* outcomes.                                                               *)
http_get(resp) ==
    IF ~resp.answered THEN {Returned(FALSE, "nada")}
    ELSE IF Parses(resp) THEN {Returned(r_ok(resp), "json")}
    ELSE IF resp.declared THEN {Returned(FALSE, "nada"), Raised}
    ELSE {Returned(r_ok(resp), "raw")}

(* _consultar_cnpj_brasilapi_com_retry: s.get and r.json() stand outside   *)
(* any try; a status of the forcelist exhausts the retries and s.get raises *)
BrasilApiFetch(resp) ==
    IF ~resp.answered \/ resp.status \in STATUS_FORCELIST THEN {Raised}
    ELSE IF resp.status = 200
         THEN IF Parses(resp) THEN {Returned(TRUE, "json")} ELSE {Raised}
         ELSE {Returned(FALSE, "nada")}

(* consultar_cnpj_receitaws_best_effort, pt_get_raw, pncp_get: the whole   *)
(* body is inside try/except Exception, every failure gives None           *)
GuardedFetch(resp) ==
    IF resp.answered /\ resp.status = 200 /\ Parses(resp)
    THEN {Returned(TRUE, "json")}
    ELSE {Returned(FALSE, "nada")}

FetcherOutcomes(f, resp) ==
    CASE f \in CliFetchers -> http_get(resp)
      [] f = "brasilapi" -> BrasilApiFetch(resp)
      [] OTHER -> GuardedFetch(resp)

FetchReturns ==
    /\ fetch.pc = "called"
    /\ \E res \in FetcherOutcomes(fetch.fetcher, fetch.resp) :
           fetch' = [fetch EXCEPT !.pc = "returned", !.result = res]
    /\ UNCHANGED <<clock, sessionVars, throttleVars, cliVars, normVars, pagerVars,
                   consVars, proc, pt_key, portalVars, disk, sessions, retry>>

InitFetch ==
    /\ InitBase
    /\ disk = NoDisk
    /\ provedores = <<>>
    /\ txt = <<>>
    /\ proc = "fetcher"
    /\ pt_key = TRUE
    /\ retry = RetryIdle
    /\ \E f \in Fetchers, resp \in Responses :
           fetch = [pc |-> "called", fetcher |-> f, resp |-> resp, result |-> Raised]

NextFetch == FetchReturns

SpecFetch == InitFetch /\ [][NextFetch]_vars

(* C19: a fetcher that gets a response whose body does not parse as JSON   *)
(* returns (does not raise) a result whose payload is the raw response     *)
(* text, and does not report a failed request when the status was 200.     *)
C19_UnparseableBodyYieldsRawText ==
    (fetch.pc = "returned" /\ fetch.resp.answered /\ ~Parses(fetch.resp)) =>
        /\ ~fetch.result.raised
        /\ fetch.result.payload = "raw"
        /\ (fetch.resp.status = 200 => fetch.result.ok)

(***************************************************************************)
(* One request through an HTTP adapter.  make_session_with_retry mounts an *)
(* adapter with Retry(total=5, status_forcelist, allowed_methods={"GET"}); *)
(* the other fetchers call requests.get, whose default adapter makes no    *)
(* second attempt.  Each attempt meets a connection error (the request     *)
(* never reached the server), a read error (timeout, connection aborted),  *)
(* or a response with a status, with or without a Retry-After header.      *)
(***************************************************************************)
TOTAL_RETRIES == 5
ALLOWED_METHODS == {"GET"}
(* Retry.RETRY_AFTER_STATUS_CODES, honoured because respect_retry_after_header *)
(* is left at its default                                                       *)
RETRY_AFTER_STATUS_CODES == {413, 429, 503}

Methods == {"GET", "POST"}
AttemptStatuses == {200, 404, 413, 429, 500}
NoOutcome == [kind |-> "none", status |-> 0, retry_after |-> FALSE]
AttemptOutcomes ==
    {[kind |-> k, status |-> 0, retry_after |-> FALSE] : k \in {"connect_error", "read_error"}}
    \cup [kind : {"status"}, status : AttemptStatuses, retry_after : BOOLEAN]

(* the object returned by make_session_with_retry used directly *)
RetrySession == "make_session_with_retry"
UsesRetrySession(caller) == caller \in {"brasilapi", RetrySession}

(* Retry.increment / Retry.is_retry under the arguments of lines 144-149: a *)
(* connection error counts against total whatever the method, a read error  *)
(* and a status only for an allowed method                                  *)
is_retry(method, o) ==
    CASE o.kind = "connect_error" -> TRUE
      [] o.kind = "read_error" -> method \in ALLOWED_METHODS
      [] OTHER -> /\ method \in ALLOWED_METHODS
                  /\ \/ o.status \in STATUS_FORCELIST
                     \/ o.retry_after /\ o.status \in RETRY_AFTER_STATUS_CODES

(* timeout, 5xx, 429 *)
Transient(o) == o.kind \in {"connect_error", "read_error"} \/ o.status \in STATUS_FORCELIST

RetryStart(caller, method) ==
    [pc |-> "sending", caller |-> caller, method |-> method,
     left |-> IF UsesRetrySession(caller) THEN TOTAL_RETRIES ELSE 0,
     attempts |-> 0, last |-> NoOutcome, cause |-> NoOutcome]

(* one attempt: retried while the policy allows and the budget lasts, else *)
(* the response is returned or the error raised                            *)
SendAttempt(rt, o) ==
    LET seen == [rt EXCEPT !.attempts = @ + 1, !.last = o] IN
    IF UsesRetrySession(rt.caller) /\ is_retry(rt.method, o)
    THEN IF rt.left = 0 THEN [seen EXCEPT !.pc = "raised"]
         ELSE [seen EXCEPT !.left = @ - 1, !.cause = o]
    ELSE [seen EXCEPT !.pc = IF o.kind = "status" THEN "returned" ELSE "raised"]

Attempt ==
    /\ retry.pc = "sending"
    /\ \E o \in AttemptOutcomes : retry' = SendAttempt(retry, o)
    /\ UNCHANGED <<clock, sessionVars, throttleVars, cliVars, normVars, pagerVars,
                   consVars, proc, pt_key, portalVars, disk, sessions, fetch>>

InitRetry ==
    /\ InitBase
    /\ disk = NoDisk
    /\ provedores = <<>>
    /\ txt = <<>>
    /\ proc = "fetcher"
    /\ pt_key = TRUE
    /\ fetch = FetchIdle
    /\ \/ \E f \in Fetchers : retry = RetryStart(f, "GET")
       \/ \E mt \in Methods : retry = RetryStart(RetrySession, mt)

NextRetry == Attempt

SpecRetry == InitRetry /\ [][NextRetry]_vars

(* C21: the retry session makes another attempt only for a GET, and only   *)
(* after a response with status 429, 500, 502, 503 or 504 or after a       *)
(* connection-level error; any other status ends the request at once.      *)
C21_RetriesOnlyGetOnForcelist ==
    (retry.pc # "idle" /\ UsesRetrySession(retry.caller) /\ retry.cause # NoOutcome) =>
        /\ retry.method = "GET"
        /\ retry.cause.kind = "status" => retry.cause.status \in STATUS_FORCELIST

(* C22: a fetcher that ends on a transient failure (timeout, connection    *)
(* error, 5xx, 429) has made more than one attempt.                        *)
C22_TransientFailureIsRetried ==
    (retry.pc \in {"returned", "raised"} /\ retry.caller \in Fetchers /\ Transient(retry.last)) =>
        retry.attempts > 1

=============================================================================
